---- MODULE Spec2Model ----
(***************************************************************************)
(* Red-black tree (rbtree.c / rbtree.h) and intrusive doubly-linked list   *)
(* (list.c / list.h) of foundry.c.                                         *)
(*                                                                         *)
(* Nodes are caller-owned records struct uut_node { struct rbnode rbn;     *)
(* unsigned n; }.  A node is identified by its address, modelled as an     *)
(* integer 1..MaxNodes; NULL is 0.  The heap reachable from struct rbtree  *)
(* is the record  tree = [root, color, left, right];  key[n] is the        *)
(* payload field n of the record that embeds node n.                       *)
(*                                                                         *)
(* List elements are addresses 1..MaxElems; the sentinal of struct list l  *)
(* is the address -l.  The list heap is  lmem = [prev, next],  functions   *)
(* from the initialised addresses to addresses.                            *)
(*                                                                         *)
(* The other containers each have one variable, which holds "unused" in    *)
(* the runs of the others: pheap (pheap.c), bheap (binheap.c over the      *)
(* vector of pointers of vector.c), htable (htable.c), blkalloc            *)
(* (blkalloc.c), vector (the vector of sized elements) and kmpcall (one    *)
(* call of kmp of kmp.c).                                                  *)
(***************************************************************************)
EXTENDS Integers, Sequences, FiniteSets, TLC

\* ----- bounds of the model ------------------------------------------------
MaxNodes == 6
MaxKey == 1
MaxReadNodes == 4
MaxDepth == 3
MaxElems == 4
MaxRingElems == 3
MaxPushes == 5
MaxPhElems == 5
MaxPhKey == 2
MaxMergeElems == 3
MaxMergeKey == 1
MaxBhSize == 4
MaxBhVal == 2
MaxHtElems == 3
MaxHtKey == 1
MaxHtBuckets == 2
MaxBlkWords == 2
MaxPoolSize == 2
MaxBlkCalls == 6
MaxVecLen == 3
MaxElemSize == 2
MaxVecVal == 1
MaxNeedle == 3
MaxHay == 4
MaxChar == 1
BigElemSize == 1000
MaxDeepNodes == 10
MaxCaseKey == 3
MaxCaseNodes == 4

\* ----- program constants --------------------------------------------------
NULL == 0
RB_BLACK == 0
RB_RED == 1
MAX_RBTREE_DEPTH == 128

Nodes == 1..MaxNodes
Keys == 0..MaxKey
DistinctKeys == 0..(MaxNodes - 1)

\* ----- state --------------------------------------------------------------
VARIABLES
    ndebug, \* the build: TRUE when compiled with -DNDEBUG (assert is a no-op)
    tree,   \* struct rbtree and the rbnode fields: [root, color, left, right]
    key,    \* key[n]: the field n of the uut_node embedding rbnode n
    used,   \* number of nodes the caller has handed to rbtree_insert
    ins,    \* activation record of rbtree_insert (its locals and position)
    ret,    \* what the last completed call returned to the caller
    srch,   \* activation record of a running rbtree_search
    trav,   \* activation record of a running rbtree_traverse
    lmem,   \* the prev and next fields of every struct list_elem
    lcall,  \* the list caller's record: last call, what it returned, history
    pheap,  \* pairing heaps: the child lists, the roots, the payloads
    bheap,  \* binary heap: its backing vector and the caller's record
    htable, \* hash table: the bucket arrays and the chains
    blkalloc, \* block allocator: pools, free list, blocks handed out
    vector, \* resizable vector: len, space, data and the caller's record
    kmpcall \* a call of kmp: its arguments, locals, position and result

rbVars == <<ndebug, tree, key, used, ins, ret, srch, trav>>

listVars == <<lmem, lcall>>

contVars == <<pheap, bheap, htable, blkalloc, vector, kmpcall>>

vars == <<ndebug, tree, key, used, ins, ret, srch, trav, lmem, lcall,
          pheap, bheap, htable, blkalloc, vector, kmpcall>>

\* The value of a container variable no function has been called on.
Unused == [op |-> "unused"]

ContUnused ==
    /\ pheap = Unused
    /\ bheap = Unused
    /\ htable = Unused
    /\ blkalloc = Unused
    /\ vector = Unused
    /\ kmpcall = Unused

\* ----- the comparator of the tests ---------------------------------------
\* a->n - b->n on unsigned operands, converted to the int return value: the
\* difference modulo 2^32 read as a signed 32-bit integer.  For operands below
\* 2^31 (every key of this model) that is the mathematical difference.
cmp(a, b) == a - b

\* ----- slots: struct rbnode ** ---------------------------------------------
\* &tree->root, &n->left or &n->right.
RootSlot == [k |-> "root", n |-> NULL]
LeftSlot(n) == [k |-> "left", n |-> n]
RightSlot(n) == [k |-> "right", n |-> n]

Deref(t, s) ==
    CASE s.k = "root" -> t.root
      [] s.k = "left" -> t.left[s.n]
      [] s.k = "right" -> t.right[s.n]

Store(t, s, v) ==
    CASE s.k = "root" -> [t EXCEPT !.root = v]
      [] s.k = "left" -> [t EXCEPT !.left[s.n] = v]
      [] s.k = "right" -> [t EXCEPT !.right[s.n] = v]

\* ----- invariant checker ---------------------------------------------------
RECURSIVE _check_node_colors(_, _)
_check_node_colors(t, node) ==
    IF node = NULL THEN 0
    ELSE IF t.color[node] # RB_BLACK /\ t.color[node] # RB_RED THEN -1
    ELSE IF _check_node_colors(t, t.left[node]) = -1
            \/ _check_node_colors(t, t.right[node]) = -1 THEN -1
    ELSE 0

\* Faulty variant: a red node passes for black.
_is_black_always(t, node) == TRUE

_is_black(t, node) == node = NULL \/ t.color[node] = RB_BLACK

\* _check_red_nodes of the first copy of rbtree.c: no recursion.
_check_red_nodes_first(t, node) ==
    IF node # NULL /\ t.color[node] = RB_RED
       /\ (~_is_black(t, t.left[node]) \/ ~_is_black(t, t.right[node]))
    THEN -1
    ELSE 0

RECURSIVE _check_red_nodes(_, _)
_check_red_nodes(t, node) ==
    IF node = NULL THEN 0
    ELSE IF ~_is_black(t, node)
            /\ (~_is_black(t, t.left[node]) \/ ~_is_black(t, t.right[node]))
         THEN -1
    ELSE IF _check_red_nodes(t, t.left[node]) = -1 THEN -1
    ELSE IF _check_red_nodes(t, t.right[node]) = -1 THEN -1
    ELSE 0

RECURSIVE _get_black_depth(_, _)
_get_black_depth(t, node) ==
    IF node = NULL THEN 1
    ELSE LET l == _get_black_depth(t, t.left[node])
             r == _get_black_depth(t, t.right[node])
         IN  IF l = -1 \/ l # r THEN -1
             ELSE l + (IF _is_black(t, node) THEN 1 ELSE 0)

\* assert(c) lets the program continue: always in a build with NDEBUG (nd),
\* else when c holds.
Asserted(nd, c) == nd \/ c

\* The four conditions the RBCHECK macro asserts.
RBCHECK(t) ==
    /\ _check_node_colors(t, t.root) = 0
    /\ _is_black(t, t.root)
    /\ _check_red_nodes(t, t.root) = 0
    /\ _get_black_depth(t, t.root) >= 0

\* ----- rotations -----------------------------------------------------------
\* parent = *n; *n = parent->right; parent->right = (*n)->left;
\* (*n)->left = parent;   *n is read again after each store.
\* Faulty variant: the node moving down receives the child the slot's node
\* had before the first store.
_rotate_left_readsOldSlot(t, n) ==
    LET parent == Deref(t, n)
        t1 == Store(t, n, t.right[parent])
        t2 == [t1 EXCEPT !.right[parent] = t.left[parent]]
    IN  [t2 EXCEPT !.left[Deref(t2, n)] = parent]

_rotate_left(t, n) ==
    LET parent == Deref(t, n)
        t1 == Store(t, n, t.right[parent])
        t2 == [t1 EXCEPT !.right[parent] = t1.left[Deref(t1, n)]]
    IN  [t2 EXCEPT !.left[Deref(t2, n)] = parent]

_rotate_right(t, n) ==
    LET parent == Deref(t, n)
        t1 == Store(t, n, t.left[parent])
        t2 == [t1 EXCEPT !.left[parent] = t1.right[Deref(t1, n)]]
    IN  [t2 EXCEPT !.right[Deref(t2, n)] = parent]

\* Faulty variant: the last store of a rotation is missing.
RotStore_skipsLast(t, dir, n, parent, i) ==
    IF dir = "left"
    THEN CASE i = 1 -> Store(t, n, t.right[parent])
           [] i = 2 -> [t EXCEPT !.right[parent] = t.left[Deref(t, n)]]
           [] i = 3 -> t
    ELSE CASE i = 1 -> Store(t, n, t.left[parent])
           [] i = 2 -> [t EXCEPT !.left[parent] = t.right[Deref(t, n)]]
           [] i = 3 -> t

\* The i-th of the three stores of _rotate_left(n) or _rotate_right(n), with
\* the loads it needs; parent is the rotation's local variable.
RotStore(t, dir, n, parent, i) ==
    IF dir = "left"
    THEN CASE i = 1 -> Store(t, n, t.right[parent])
           [] i = 2 -> [t EXCEPT !.right[parent] = t.left[Deref(t, n)]]
           [] i = 3 -> [t EXCEPT !.left[Deref(t, n)] = parent]
    ELSE CASE i = 1 -> Store(t, n, t.left[parent])
           [] i = 2 -> [t EXCEPT !.left[parent] = t.right[Deref(t, n)]]
           [] i = 3 -> [t EXCEPT !.right[Deref(t, n)] = parent]

\* ----- rbtree_init ---------------------------------------------------------
\* tree->root = NULL.  Nodes the caller has not inserted yet hold no links.
EmptyTree ==
    [root |-> NULL,
     color |-> [n \in Nodes |-> RB_BLACK],
     left |-> [n \in Nodes |-> NULL],
     right |-> [n \in Nodes |-> NULL]]

\* ----- rbtree_insert, one definition per stretch of the function -----------
\* The activation record: the locals of rbtree_insert and its position pc.
\* backtrace and uncles are the two stack arrays; only the entries the code
\* has written are present.  The call ends at pc = "abort" when an assertion
\* fails in the debug build; in both builds it ends there when the condition
\* of an assertion that guards a pointer access is false (the access that
\* follows is a NULL dereference).  depth is the number of elements of each
\* of the two arrays; a write past them with assertions compiled out is
\* undefined behaviour, after which nothing is said: pc = "undefined".  So
\* is, with assertions compiled out, the read of backtrace[current - 1] or
\* backtrace[current - 2] at an index below 0: what the call does next
\* depends on the stack word found there.
\* rbchecks counts the RBCHECK statements the call has executed (the macro
\* expands to nothing with assertions compiled out).
IdleFrame ==
    [pc |-> "idle", node |-> NULL, current |-> 0,
     backtrace |-> <<>>, uncles |-> <<>>,
     gparent |-> NULL, parent |-> NULL, uncle |-> NULL, sibling |-> NULL,
     backtrack |-> 0, depth |-> MAX_RBTREE_DEPTH, rbchecks |-> 0]

Abort(m) == [m EXCEPT !.f.pc = "abort"]

\* Faulty variant: the new node is colored black.
NewNodeInit_black(t, node) ==
    [t EXCEPT !.color[node] = RB_BLACK,
              !.left[node] = NULL,
              !.right[node] = NULL]

\* Faulty variant: the child pointers of the new node are not cleared.
NewNodeInit_noClear(t, node) == [t EXCEPT !.color[node] = RB_RED]

\* Faulty variant: node->left is not cleared.
NewNodeInit_keepsLeft(t, node) ==
    [t EXCEPT !.color[node] = RB_RED, !.right[node] = NULL]

\* Faulty variant: node->color is not set.
NewNodeInit_keepsColor(t, node) ==
    [t EXCEPT !.left[node] = NULL, !.right[node] = NULL]

\* node->color = RB_RED; node->left = node->right = NULL;
NewNodeInit(t, node) ==
    [t EXCEPT !.color[node] = RB_RED,
              !.left[node] = NULL,
              !.right[node] = NULL]

\* Entry: RBCHECK, initialise the new node, start the path at &tree->root.
\* What one RBCHECK statement adds to the count of checks run.
Ran(nd) == IF nd THEN 0 ELSE 1

\* The children of the nodes of S.
Kids(t, S) == ({t.left[n] : n \in S} \cup {t.right[n] : n \in S}) \ {NULL}

\* The nodes that following at most i links from the nodes of S arrives at.
RECURSIVE Within(_, _, _)
Within(t, S, i) ==
    IF i = 0 THEN S ELSE Within(t, S \cup Kids(t, S), i - 1)

\* Some node under the root is below itself. The recursive checkers have no
\* end on such a structure: a call of RBCHECK on it does not come back.
Cyclic(t) ==
    \E n \in Within(t, {t.root} \ {NULL}, MaxNodes) :
        n \in Within(t, Kids(t, {n}), MaxNodes)

\* Faulty variant: a node that is already in the tree is refused on entry.
InsertEntry_rejectsLinked(t, node, nd) ==
    IF \/ ~Asserted(nd, RBCHECK(t))
       \/ node \in Within(t, {t.root} \ {NULL}, MaxNodes)
    THEN [t |-> t, f |-> [IdleFrame EXCEPT !.pc = "abort", !.node = node,
                                           !.rbchecks = Ran(nd)]]
    ELSE [t |-> NewNodeInit(t, node),
          f |-> [IdleFrame EXCEPT !.pc = "descend",
                                  !.node = node,
                                  !.current = 0,
                                  !.backtrace = (0 :> RootSlot),
                                  !.rbchecks = Ran(nd)]]

InsertEntry(t, node, nd) ==
    IF ~Asserted(nd, RBCHECK(t))
    THEN [t |-> t, f |-> [IdleFrame EXCEPT !.pc = "abort", !.node = node,
                                           !.rbchecks = Ran(nd)]]
    ELSE [t |-> NewNodeInit(t, node),
          f |-> [IdleFrame EXCEPT !.pc = "descend",
                                  !.node = node,
                                  !.current = 0,
                                  !.backtrace = (0 :> RootSlot),
                                  !.rbchecks = Ran(nd)]]

\* Faulty variant: the comparison is the wrong way round.
GoesLeft_reversed(k, node, parent) == cmp(k[node], k[parent]) > 0

\* Faulty variant: a node that compares equal goes to the left as well.
GoesLeft_onEqual(k, node, parent) == cmp(k[node], k[parent]) <= 0

\* tree->cmp(node, parent) < 0: the new node belongs in parent's left subtree.
GoesLeft(k, node, parent) == cmp(k[node], k[parent]) < 0

\* Faulty variant: uncles[current] is written before the index is checked.
DescendStep_writeFirst(m, k, nd) ==
    LET t == m.t
        f == m.f
    IN  IF Deref(t, f.backtrace[f.current]) # NULL
        THEN LET parent == Deref(t, f.backtrace[f.current])
                 current == f.current + 1
                 goLeft == GoesLeft(k, f.node, parent)
                 f1 == [f EXCEPT !.gparent = f.parent,
                                 !.parent = parent,
                                 !.uncle = f.sibling,
                                 !.current = current,
                                 !.uncles = (current :> f.sibling) @@ f.uncles]
             IN  IF ~Asserted(nd, current < f.depth)
                 THEN Abort([m EXCEPT !.f = f1])
                 ELSE IF ~(current < f.depth)
                 THEN [m EXCEPT !.f = [f1 EXCEPT !.pc = "undefined"]]
                 ELSE [m EXCEPT !.f =
                         [f1 EXCEPT
                            !.backtrace =
                                (current :> (IF goLeft THEN LeftSlot(parent)
                                             ELSE RightSlot(parent)))
                                @@ f.backtrace,
                            !.sibling = IF goLeft THEN t.right[parent]
                                        ELSE t.left[parent]]]
        ELSE [t |-> Store(t, f.backtrace[f.current], f.node),
              f |-> [f EXCEPT !.pc = "fixup"]]

\* Faulty variant: uncles[current] receives the sibling of the node below
\* the new parent instead of the sibling of the parent.
DescendStep_ownSibling(m, k, nd) ==
    LET t == m.t
        f == m.f
    IN  IF Deref(t, f.backtrace[f.current]) # NULL
        THEN LET parent == Deref(t, f.backtrace[f.current])
                 current == f.current + 1
                 goLeft == GoesLeft(k, f.node, parent)
                 sibling == IF goLeft THEN t.right[parent] ELSE t.left[parent]
                 f1 == [f EXCEPT !.gparent = f.parent,
                                 !.parent = parent,
                                 !.uncle = f.sibling,
                                 !.current = current]
             IN  IF ~Asserted(nd, current < f.depth)
                 THEN Abort([m EXCEPT !.f = f1])
                 ELSE IF ~(current < f.depth)
                 THEN [m EXCEPT !.f =
                         [f1 EXCEPT
                            !.uncles = (current :> sibling) @@ f.uncles,
                            !.pc = "undefined"]]
                 ELSE [m EXCEPT !.f =
                         [f1 EXCEPT
                            !.uncles = (current :> sibling) @@ f.uncles,
                            !.backtrace =
                                (current :> (IF goLeft THEN LeftSlot(parent)
                                             ELSE RightSlot(parent)))
                                @@ f.backtrace,
                            !.sibling = sibling]]
        ELSE [t |-> Store(t, f.backtrace[f.current], f.node),
              f |-> [f EXCEPT !.pc = "fixup"]]

\* One evaluation of the descent loop's condition: either one iteration of
\* the body, or the exit and the store of the new node in the slot found.
\* With assertions compiled out nothing stops the write of uncles[current]
\* at an index that is not below the size of the array.
DescendStep(m, k, nd) ==
    LET t == m.t
        f == m.f
    IN  IF Deref(t, f.backtrace[f.current]) # NULL
        THEN LET parent == Deref(t, f.backtrace[f.current])
                 current == f.current + 1
                 goLeft == GoesLeft(k, f.node, parent)
                 f1 == [f EXCEPT !.gparent = f.parent,
                                 !.parent = parent,
                                 !.uncle = f.sibling,
                                 !.current = current]
             IN  IF ~Asserted(nd, current < f.depth)
                 THEN Abort([m EXCEPT !.f = f1])
                 ELSE IF ~(current < f.depth)
                 THEN [m EXCEPT !.f =
                         [f1 EXCEPT
                            !.uncles = (current :> f.sibling) @@ f.uncles,
                            !.pc = "undefined"]]
                 ELSE [m EXCEPT !.f =
                         [f1 EXCEPT
                            !.uncles = (current :> f.sibling) @@ f.uncles,
                            !.backtrace =
                                (current :> (IF goLeft THEN LeftSlot(parent)
                                             ELSE RightSlot(parent)))
                                @@ f.backtrace,
                            !.sibling = IF goLeft THEN t.right[parent]
                                        ELSE t.left[parent]]]
        ELSE [t |-> Store(t, f.backtrace[f.current], f.node),
              f |-> [f EXCEPT !.pc = "fixup"]]

\* Faulty variant: the root is not repainted.
PaintRootBlack_skip(m, f1, node) == [m EXCEPT !.f = [f1 EXCEPT !.pc = "done"]]

\* Faulty variant: the root is painted red.
PaintRootBlack_red(m, f1, node) ==
    [t |-> [m.t EXCEPT !.color[node] = RB_RED],
     f |-> [f1 EXCEPT !.pc = "done"]]

\* The node is the root: node->color = RB_BLACK; return;
PaintRootBlack(m, f1, node) ==
    [t |-> [m.t EXCEPT !.color[node] = RB_BLACK],
     f |-> [f1 EXCEPT !.pc = "done"]]

\* Faulty variant: current -= 2 is missing.
RecolorRedUncle_keepCurrent(m, f3, parent, uncle, gparent) ==
    [t |-> [m.t EXCEPT !.color[parent] = RB_BLACK,
                       !.color[uncle] = RB_BLACK,
                       !.color[gparent] = RB_RED],
     f |-> [f3 EXCEPT !.backtrack = 1]]

\* Faulty variant: the parent is not repainted.
RecolorRedUncle_parentStaysRed(m, f3, parent, uncle, gparent) ==
    [t |-> [m.t EXCEPT !.color[uncle] = RB_BLACK,
                       !.color[gparent] = RB_RED],
     f |-> [f3 EXCEPT !.backtrack = 1, !.current = f3.current - 2]]

\* Faulty variant: the grandparent is not repainted.
RecolorRedUncle_gparentStaysBlack(m, f3, parent, uncle, gparent) ==
    [t |-> [m.t EXCEPT !.color[parent] = RB_BLACK,
                       !.color[uncle] = RB_BLACK],
     f |-> [f3 EXCEPT !.backtrack = 1, !.current = f3.current - 2]]

\* Parent and uncle are red: repaint them black and the grandparent red,
\* then go on two levels up (backtrack = 1; current -= 2).
RecolorRedUncle(m, f3, parent, uncle, gparent) ==
    [t |-> [m.t EXCEPT !.color[parent] = RB_BLACK,
                       !.color[uncle] = RB_BLACK,
                       !.color[gparent] = RB_RED],
     f |-> [f3 EXCEPT !.backtrack = 1, !.current = f3.current - 2]]

\* One iteration of the do ... while (backtrack) loop.  A red parent at
\* current = 1 is a red root: assert(current >= 2) stops the debug build,
\* the other build reads backtrace[-1].
FixupStep(m, nd) ==
    LET t == m.t
        f == m.f
        node == Deref(t, f.backtrace[f.current])
        f1 == [f EXCEPT !.node = node]
    IN  IF t.root = node
        THEN PaintRootBlack(m, f1, node)
        ELSE IF ~Asserted(nd, f.current >= 1)
        THEN Abort([m EXCEPT !.f = f1])
        ELSE IF ~(f.current >= 1)
        THEN [m EXCEPT !.f = [f1 EXCEPT !.pc = "undefined"]]
        ELSE LET parent == Deref(t, f.backtrace[f.current - 1])
                 f2 == [f1 EXCEPT !.parent = parent]
             IN  IF parent = NULL THEN Abort([m EXCEPT !.f = f2])
                 ELSE IF t.color[parent] = RB_BLACK
                 THEN [m EXCEPT !.f = [f2 EXCEPT !.pc = "done"]]
                 ELSE IF ~Asserted(nd, t.color[parent] = RB_RED)
                         \/ ~Asserted(nd, f.current >= 2)
                 THEN Abort([m EXCEPT !.f = f2])
                 ELSE IF ~(f.current >= 2)
                 THEN [m EXCEPT !.f = [f2 EXCEPT !.pc = "undefined"]]
                 ELSE LET gparent == Deref(t, f.backtrace[f.current - 2])
                          uncle == f.uncles[f.current]
                          f3 == [f2 EXCEPT !.gparent = gparent,
                                           !.uncle = uncle]
                      IN  IF gparent = NULL
                          THEN Abort([m EXCEPT !.f =
                                        [f2 EXCEPT !.gparent = gparent]])
                          ELSE IF ~_is_black(t, uncle)
                          THEN RecolorRedUncle(m, f3, parent, uncle, gparent)
                          ELSE [m EXCEPT !.f = [f3 EXCEPT !.backtrack = 0,
                                                          !.pc = "inner"]]

\* Faulty variant: parent = node is missing after the inner rotation.
RotateInner_keepsParent(m) ==
    LET t == m.t
        f == m.f
        slot == f.backtrace[f.current - 1]
    IN  IF f.node = t.right[f.parent] /\ f.parent = t.left[f.gparent]
        THEN IF t.right[Deref(t, slot)] = NULL THEN Abort(m)
             ELSE [t |-> _rotate_left(t, slot),
                   f |-> [f EXCEPT !.pc = "outer"]]
        ELSE IF f.node = t.left[f.parent] /\ f.parent = t.right[f.gparent]
        THEN IF t.left[Deref(t, slot)] = NULL THEN Abort(m)
             ELSE [t |-> _rotate_right(t, slot),
                   f |-> [f EXCEPT !.pc = "outer"]]
        ELSE [m EXCEPT !.f.pc = "outer"]

\* If the current node is an inner child, rotate it to the outside.
RotateInner(m) ==
    LET t == m.t
        f == m.f
        slot == f.backtrace[f.current - 1]
    IN  IF f.node = t.right[f.parent] /\ f.parent = t.left[f.gparent]
        THEN IF t.right[Deref(t, slot)] = NULL THEN Abort(m)
             ELSE [t |-> _rotate_left(t, slot),
                   f |-> [f EXCEPT !.parent = f.node, !.pc = "outer"]]
        ELSE IF f.node = t.left[f.parent] /\ f.parent = t.right[f.gparent]
        THEN IF t.left[Deref(t, slot)] = NULL THEN Abort(m)
             ELSE [t |-> _rotate_right(t, slot),
                   f |-> [f EXCEPT !.parent = f.node, !.pc = "outer"]]
        ELSE [m EXCEPT !.f.pc = "outer"]

\* Faulty variant: the rotation of the grandparent is missing.
RotateOuter_noRotate(m, nd) ==
    LET f == m.f
        t == [m.t EXCEPT !.color[f.parent] = RB_BLACK,
                         !.color[f.gparent] = RB_RED]
    IN  [t |-> t,
         f |-> [f EXCEPT !.pc = IF Asserted(nd, RBCHECK(t)) THEN "done"
                                ELSE "abort",
                         !.rbchecks = @ + Ran(nd)]]

\* Recolor parent and grandparent, rotate the grandparent, RBCHECK, return.
RotateOuter(m, nd) ==
    LET f == m.f
        t == [m.t EXCEPT !.color[f.parent] = RB_BLACK,
                         !.color[f.gparent] = RB_RED]
        slot == f.backtrace[f.current - 2]
        m1 == [m EXCEPT !.t = t]
    IN  IF f.parent = t.right[f.gparent]
        THEN IF t.right[Deref(t, slot)] = NULL THEN Abort(m1)
             ELSE LET t1 == _rotate_left(t, slot)
                  IN  [t |-> t1,
                       f |-> [f EXCEPT !.pc = IF Asserted(nd, RBCHECK(t1))
                                              THEN "done" ELSE "abort",
                                       !.rbchecks = @ + Ran(nd)]]
        ELSE IF ~Asserted(nd, f.parent = t.left[f.gparent]) THEN Abort(m1)
        ELSE IF t.left[Deref(t, slot)] = NULL THEN Abort(m1)
        ELSE LET t1 == _rotate_right(t, slot)
             IN  [t |-> t1,
                  f |-> [f EXCEPT !.pc = IF Asserted(nd, RBCHECK(t1))
                                         THEN "done" ELSE "abort",
                                  !.rbchecks = @ + Ran(nd)]]

\* The two rotations of rbtree_insert one store at a time, for a run in which
\* another thread reads the tree between the stores.  pc "innerL2" is the
\* position before the second store of the _rotate_left of the inner
\* rotation, and so on.
StoreInner(m) ==
    LET t == m.t
        f == m.f
        slot == f.backtrace[f.current - 1]
    IN  CASE f.pc = "inner" ->
               IF f.node = t.right[f.parent] /\ f.parent = t.left[f.gparent]
               THEN IF t.right[Deref(t, slot)] = NULL THEN Abort(m)
                    ELSE [t |-> RotStore(t, "left", slot, f.parent, 1),
                          f |-> [f EXCEPT !.pc = "innerL2"]]
               ELSE IF f.node = t.left[f.parent]
                       /\ f.parent = t.right[f.gparent]
               THEN IF t.left[Deref(t, slot)] = NULL THEN Abort(m)
                    ELSE [t |-> RotStore(t, "right", slot, f.parent, 1),
                          f |-> [f EXCEPT !.pc = "innerR2"]]
               ELSE [m EXCEPT !.f.pc = "outer"]
          [] f.pc = "innerL2" ->
               [t |-> RotStore(t, "left", slot, f.parent, 2),
                f |-> [f EXCEPT !.pc = "innerL3"]]
          [] f.pc = "innerR2" ->
               [t |-> RotStore(t, "right", slot, f.parent, 2),
                f |-> [f EXCEPT !.pc = "innerR3"]]
          [] f.pc = "innerL3" ->
               [t |-> RotStore(t, "left", slot, f.parent, 3),
                f |-> [f EXCEPT !.parent = f.node, !.pc = "outer"]]
          [] f.pc = "innerR3" ->
               [t |-> RotStore(t, "right", slot, f.parent, 3),
                f |-> [f EXCEPT !.parent = f.node, !.pc = "outer"]]

StoreOuter(m, nd) ==
    LET f == m.f
        slot == f.backtrace[f.current - 2]
    IN  CASE f.pc = "outer" ->
               LET t == [m.t EXCEPT !.color[f.parent] = RB_BLACK,
                                    !.color[f.gparent] = RB_RED]
                   m1 == [m EXCEPT !.t = t]
               IN  IF f.parent = t.right[f.gparent]
                   THEN IF t.right[Deref(t, slot)] = NULL THEN Abort(m1)
                        ELSE [t |-> RotStore(t, "left", slot, f.gparent, 1),
                              f |-> [f EXCEPT !.pc = "outerL2"]]
                   ELSE IF ~Asserted(nd, f.parent = t.left[f.gparent])
                   THEN Abort(m1)
                   ELSE IF t.left[Deref(t, slot)] = NULL THEN Abort(m1)
                   ELSE [t |-> RotStore(t, "right", slot, f.gparent, 1),
                         f |-> [f EXCEPT !.pc = "outerR2"]]
          [] f.pc = "outerL2" ->
               [t |-> RotStore(m.t, "left", slot, f.gparent, 2),
                f |-> [f EXCEPT !.pc = "outerL3"]]
          [] f.pc = "outerR2" ->
               [t |-> RotStore(m.t, "right", slot, f.gparent, 2),
                f |-> [f EXCEPT !.pc = "outerR3"]]
          [] f.pc \in {"outerL3", "outerR3"} ->
               LET t1 == RotStore(m.t,
                                  IF f.pc = "outerL3" THEN "left" ELSE "right",
                                  slot, f.gparent, 3)
               IN  [t |-> t1,
                    f |-> [f EXCEPT !.pc = IF Asserted(nd, RBCHECK(t1))
                                           THEN "done" ELSE "abort",
                                    !.rbchecks = @ + Ran(nd)]]

\* The step the function takes next from position pc.
InsertStep(m, k, nd) ==
    CASE m.f.pc = "descend" -> DescendStep(m, k, nd)
      [] m.f.pc = "fixup" -> FixupStep(m, nd)
      [] m.f.pc = "inner" -> RotateInner(m)
      [] m.f.pc = "outer" -> RotateOuter(m, nd)

\* The whole call: the steps in program order until it returns or aborts.
RECURSIVE RunInsert(_, _, _)
RunInsert(m, k, nd) ==
    IF m.f.pc \in {"done", "abort", "undefined"} THEN m
    ELSE RunInsert(InsertStep(m, k, nd), k, nd)

rbtree_insert(t, k, node, nd) == RunInsert(InsertEntry(t, node, nd), k, nd)

\* The steps in program order up to the last rotation, the return or the
\* abort.
RECURSIVE RunToOuter(_, _, _)
RunToOuter(m, k, nd) ==
    IF m.f.pc \in {"outer", "done", "abort", "undefined"} THEN m
    ELSE RunToOuter(InsertStep(m, k, nd), k, nd)

\* The whole call when node is already linked in the tree t. The code is
\* the same; the links it writes can then close a cycle, on which the
\* RBCHECK before the return (assertions on) does not come back: pc becomes
\* "diverged". Colors are RB_BLACK or RB_RED throughout.
rbtree_insert_linked(t, k, node, nd) ==
    LET m1 == RunToOuter(InsertEntry(t, node, nd), k, nd)
        f == m1.f
        m2 == RotateOuter(m1, TRUE)
        onSide == \/ f.parent = m1.t.right[f.gparent]
                  \/ f.parent = m1.t.left[f.gparent]
    IN  IF f.pc # "outer" THEN m1
        ELSE IF ~nd /\ onSide /\ m2.f.pc = "done" /\ Cyclic(m2.t)
        THEN [m2 EXCEPT !.f.pc = "diverged", !.f.rbchecks = @ + Ran(nd)]
        ELSE RotateOuter(m1, nd)

\* ----- rbtree_search -------------------------------------------------------
\* The key node of the call is a record whose field n is kv.
\* Faulty variant: descends right for a smaller key and left for a larger.
RECURSIVE SearchFrom_reversed(_, _, _, _)
SearchFrom_reversed(t, k, kv, cur) ==
    IF cur = NULL THEN cur
    ELSE LET c == cmp(kv, k[cur])
         IN  IF c < 0 THEN SearchFrom_reversed(t, k, kv, t.right[cur])
             ELSE IF c > 0 THEN SearchFrom_reversed(t, k, kv, t.left[cur])
             ELSE cur

RECURSIVE SearchFrom(_, _, _, _)
SearchFrom(t, k, kv, cur) ==
    IF cur = NULL THEN cur
    ELSE LET c == cmp(kv, k[cur])
         IN  IF c < 0 THEN SearchFrom(t, k, kv, t.left[cur])
             ELSE IF c > 0 THEN SearchFrom(t, k, kv, t.right[cur])
             ELSE cur

rbtree_search(t, k, kv) == SearchFrom(t, k, kv, t.root)

\* ----- rbtree_traverse -----------------------------------------------------
\* The callback appends the node to the scratch sequence and returns code
\* at node stopAt, 0 at every other node.
Callback(node, stopAt, code) == IF node = stopAt THEN code ELSE 0

\* Faulty variant: a node without a left child is passed over together with
\* its right subtree.
RECURSIVE _traverse_skipRight(_, _, _, _, _)
_traverse_skipRight(t, node, stopAt, code, scratch) ==
    IF node = NULL THEN [rc |-> 0, scratch |-> scratch]
    ELSE LET l == _traverse_skipRight(t, t.left[node], stopAt, code, scratch)
         IN  IF l.rc # 0 \/ t.left[node] = NULL THEN l
             ELSE LET c == Callback(node, stopAt, code)
                      s == Append(l.scratch, node)
                  IN  IF c # 0 THEN [rc |-> c, scratch |-> s]
                      ELSE _traverse_skipRight(t, t.right[node], stopAt,
                                               code, s)

\* Faulty variant: the status of the walk of the left subtree is ignored.
RECURSIVE _traverse_ignoreLeftRc(_, _, _, _, _)
_traverse_ignoreLeftRc(t, node, stopAt, code, scratch) ==
    IF node = NULL THEN [rc |-> 0, scratch |-> scratch]
    ELSE LET l == _traverse_ignoreLeftRc(t, t.left[node], stopAt, code,
                                         scratch)
             c == Callback(node, stopAt, code)
             s == Append(l.scratch, node)
         IN  IF c # 0 THEN [rc |-> c, scratch |-> s]
             ELSE LET r == _traverse_ignoreLeftRc(t, t.right[node], stopAt,
                                                  code, s)
                  IN  IF r.rc # 0 THEN r ELSE [r EXCEPT !.rc = l.rc]

RECURSIVE _traverse(_, _, _, _, _)
_traverse(t, node, stopAt, code, scratch) ==
    IF node = NULL THEN [rc |-> 0, scratch |-> scratch]
    ELSE LET l == _traverse(t, t.left[node], stopAt, code, scratch)
         IN  IF l.rc # 0 THEN l
             ELSE LET c == Callback(node, stopAt, code)
                      s == Append(l.scratch, node)
                  IN  IF c # 0 THEN [rc |-> c, scratch |-> s]
                      ELSE _traverse(t, t.right[node], stopAt, code, s)

rbtree_traverse(t, stopAt, code) == _traverse(t, t.root, stopAt, code, <<>>)

\* ----- rbtree_delete -------------------------------------------------------
\* Faulty variant: deleting the root empties the tree.
rbtree_delete_dropsRoot(t, to_del) ==
    IF t.root = to_del THEN [t EXCEPT !.root = NULL] ELSE t

\* (void)tree; (void)to_del;
rbtree_delete(t, to_del) == t

\* ----- the caller: whole calls, one action per function --------------------
StopCodes == {-1, 3}

NoRet == [op |-> "none", key |-> 0, node |-> NULL, stopAt |-> NULL,
          code |-> 0, rc |-> 0, scratch |-> <<>>]

\* during: the node whose rbtree_insert was running in another thread when
\* this search was called (NULL when none was): the node argument of that
\* call, not the local variable node, which the fix-up loop moves up.
IdleSearch == [pc |-> "idle", key |-> 0, cur |-> NULL, during |-> NULL]

IdleTraverse == [pc |-> "idle", stopAt |-> NULL, code |-> 0, stack |-> <<>>,
                 rc |-> 0, scratch |-> <<>>]

\* rbtree_init(&tree, cmp) has run; no node has been inserted.
Init ==
    /\ ndebug \in BOOLEAN
    /\ tree = EmptyTree
    /\ key = [n \in Nodes |-> 0]
    /\ used = 0
    /\ ins = IdleFrame
    /\ ret = NoRet
    /\ srch = IdleSearch
    /\ trav = IdleTraverse
    /\ lmem = [prev |-> <<>>, next |-> <<>>]
    /\ lcall = [op |-> "none"]
    /\ ContUnused

Quiet == ins.pc = "idle" /\ srch.pc = "idle" /\ trav.pc = "idle"

\* What the fields of a struct rbnode on the caller's stack may hold before
\* the node is handed to rbtree_insert: zeroes, or a stale color and stale
\* pointers (here to the storage of the next node of the caller's array).
Uninit(node) ==
    LET stale == IF node < MaxNodes THEN node + 1 ELSE NULL
    IN  {[color |-> RB_BLACK, left |-> NULL, right |-> NULL],
         [color |-> RB_RED + 1, left |-> stale, right |-> stale]}

WithFields(t, node, g) ==
    [t EXCEPT !.color[node] = g.color,
              !.left[node] = g.left,
              !.right[node] = g.right]

\* nodes[used].n = kv; rbtree_insert(&tree, &nodes[used].rbn);
\* g is what the node's storage held before the call.
DoInsert(kv, g) ==
    LET node == used + 1
        k1 == [key EXCEPT ![node] = kv]
        r == rbtree_insert(WithFields(tree, node, g), k1, node, ndebug)
    IN  /\ key' = k1
        /\ used' = node
        /\ tree' = r.t
        /\ ins' = IF r.f.pc = "done" THEN IdleFrame ELSE r.f
        /\ ret' = [NoRet EXCEPT !.op = "insert", !.key = kv, !.node = node]
        /\ UNCHANGED <<contVars, listVars, ndebug, srch, trav>>

Insert ==
    /\ Quiet
    /\ used < MaxNodes
    /\ \E kv \in Keys, g \in Uninit(used + 1) : DoInsert(kv, g)

\* found = rbtree_search(&tree, &probe.rbn) with probe.n = kv
Search ==
    /\ Quiet
    /\ \E kv \in Keys :
         ret' = [NoRet EXCEPT !.op = "search", !.key = kv,
                              !.node = rbtree_search(tree, key, kv)]
    /\ UNCHANGED <<contVars, listVars, ndebug, tree, key, used, ins, srch, trav>>

\* rc = rbtree_traverse(&tree, callback, &scratch)
Traverse ==
    /\ Quiet
    /\ \E stopAt \in 0..used, code \in StopCodes :
         /\ stopAt = NULL => code = 3
         /\ LET r == rbtree_traverse(tree, stopAt, code)
            IN  ret' = [NoRet EXCEPT !.op = "traverse", !.stopAt = stopAt,
                                     !.code = code, !.rc = r.rc,
                                     !.scratch = r.scratch]
    /\ UNCHANGED <<contVars, listVars, ndebug, tree, key, used, ins, srch, trav>>

\* rbtree_delete(&tree, &nodes[n].rbn) on a node that was inserted
Delete ==
    /\ Quiet
    /\ \E n \in 1..used :
         /\ tree' = rbtree_delete(tree, n)
         /\ ret' = [NoRet EXCEPT !.op = "delete", !.key = key[n], !.node = n]
    /\ UNCHANGED <<contVars, listVars, ndebug, key, used, ins, srch, trav>>

Next == Insert \/ Search \/ Traverse \/ Delete

Spec == Init /\ [][Next]_vars

\* ----- distinct keys -------------------------------------------------------
\* The caller of add-ascending.c: every node gets a key no earlier node has.
InsertDistinct ==
    /\ Quiet
    /\ used < MaxNodes
    /\ \E kv \in DistinctKeys, g \in Uninit(used + 1) :
         /\ \A n \in 1..used : key[n] # kv
         /\ DoInsert(kv, g)

NextDistinct == InsertDistinct

\* ----- the red-node check on trees linked by hand -------------------------
\* Any binary tree with valid colors is an argument of _check_red_nodes: a
\* node with either color is linked at any free child slot.
LinkLeaf ==
    /\ Quiet
    /\ used < MaxReadNodes
    /\ \E c \in {RB_BLACK, RB_RED} :
       \E slot \in {RootSlot} \cup {LeftSlot(n) : n \in 1..used}
                              \cup {RightSlot(n) : n \in 1..used} :
         /\ Deref(tree, slot) = NULL
         /\ tree' = [Store(tree, slot, used + 1) EXCEPT
                        !.color[used + 1] = c,
                        !.left[used + 1] = NULL,
                        !.right[used + 1] = NULL]
         /\ used' = used + 1
         /\ ret' = NoRet
    /\ UNCHANGED <<contVars, listVars, ndebug, key, ins, srch, trav>>

\* rc = _check_red_nodes(tree->root), current copy
CheckRedNodes ==
    /\ Quiet
    /\ ret' = [NoRet EXCEPT !.op = "_check_red_nodes",
                            !.rc = _check_red_nodes(tree, tree.root)]
    /\ UNCHANGED <<contVars, listVars, ndebug, tree, key, used, ins, srch, trav>>

\* rc = _check_red_nodes(tree->root), first copy
CheckRedNodesFirst ==
    /\ Quiet
    /\ ret' = [NoRet EXCEPT !.op = "_check_red_nodes_first",
                            !.rc = _check_red_nodes_first(tree, tree.root)]
    /\ UNCHANGED <<contVars, listVars, ndebug, tree, key, used, ins, srch, trav>>

NextChecker == LinkLeaf \/ CheckRedNodes \/ CheckRedNodesFirst

SpecChecker == Init /\ [][NextChecker]_vars

\* ----- a node handed to rbtree_insert a second time -------------------------
\* rbtree_insert(&tree, &nodes[n].rbn) for a node that is in the tree. The
\* caller makes no further call on the tree afterwards.
Relink ==
    /\ Quiet
    /\ ret.op # "reinsert"
    /\ \E n \in 1..used :
         LET r == rbtree_insert_linked(tree, key, n, ndebug)
         IN  /\ tree' = r.t
             /\ ins' = IF r.f.pc = "done" THEN IdleFrame ELSE r.f
             /\ ret' = [NoRet EXCEPT !.op = "reinsert", !.key = key[n],
                                     !.node = n]
    /\ UNCHANGED <<contVars, listVars, ndebug, key, used, srch, trav>>

InsertFirst == ret.op # "reinsert" /\ Insert

NextRelink == InsertFirst \/ Relink

SpecRelink == Init /\ [][NextRelink]_vars

SpecDistinct == Init /\ [][NextDistinct]_vars

\* ----- rbtree_insert step by step -----------------------------------------
\* The same caller, with the call of rbtree_insert split at its loops: entry,
\* one action per evaluation of a loop condition, the two rotation stretches
\* and the return.
InsertCall ==
    /\ Quiet
    /\ used < MaxNodes
    /\ \E kv \in Keys, g \in Uninit(used + 1) :
         LET node == used + 1
             m == InsertEntry(WithFields(tree, node, g), node, ndebug)
         IN  /\ key' = [key EXCEPT ![node] = kv]
             /\ used' = node
             /\ tree' = m.t
             /\ ins' = m.f
    /\ UNCHANGED <<contVars, listVars, ndebug, ret, srch, trav>>

\* The same call of a build in which MAX_RBTREE_DEPTH is MaxDepth.
InsertCallShallow ==
    /\ Quiet
    /\ used < MaxNodes
    /\ \E kv \in Keys, g \in Uninit(used + 1) :
         LET node == used + 1
             m == InsertEntry(WithFields(tree, node, g), node, ndebug)
         IN  /\ key' = [key EXCEPT ![node] = kv]
             /\ used' = node
             /\ tree' = m.t
             /\ ins' = [m.f EXCEPT !.depth = MaxDepth]
    /\ UNCHANGED <<contVars, listVars, ndebug, ret, srch, trav>>

InsertDescend ==
    /\ ins.pc = "descend"
    /\ LET m == DescendStep([t |-> tree, f |-> ins], key, ndebug)
       IN  tree' = m.t /\ ins' = m.f
    /\ UNCHANGED <<contVars, listVars, ndebug, key, used, ret, srch, trav>>

InsertFixup ==
    /\ ins.pc = "fixup"
    /\ LET m == FixupStep([t |-> tree, f |-> ins], ndebug)
       IN  tree' = m.t /\ ins' = m.f
    /\ UNCHANGED <<contVars, listVars, ndebug, key, used, ret, srch, trav>>

InsertInner ==
    /\ ins.pc = "inner"
    /\ LET m == RotateInner([t |-> tree, f |-> ins])
       IN  tree' = m.t /\ ins' = m.f
    /\ UNCHANGED <<contVars, listVars, ndebug, key, used, ret, srch, trav>>

InsertOuter ==
    /\ ins.pc = "outer"
    /\ LET m == RotateOuter([t |-> tree, f |-> ins], ndebug)
       IN  tree' = m.t /\ ins' = m.f
    /\ UNCHANGED <<contVars, listVars, ndebug, key, used, ret, srch, trav>>

InsertReturn ==
    /\ ins.pc = "done"
    /\ ins' = IdleFrame
    /\ ret' = [NoRet EXCEPT !.op = "insert", !.key = key[used], !.node = used]
    /\ UNCHANGED <<contVars, listVars, ndebug, tree, key, used, srch, trav>>

InsertRun == InsertDescend \/ InsertFixup \/ InsertInner \/ InsertOuter

NextSteps ==
    \/ InsertCall
    \/ InsertDescend
    \/ InsertFixup
    \/ InsertInner
    \/ InsertOuter
    \/ InsertReturn

\* A call that has started keeps running: nothing suspends the calling thread.
SpecSteps == Init /\ [][NextSteps]_vars /\ WF_vars(InsertRun)

\* The same steps with arrays of MaxDepth elements.
NextShallow ==
    \/ InsertCallShallow
    \/ InsertDescend
    \/ InsertFixup
    \/ InsertInner
    \/ InsertOuter
    \/ InsertReturn

SpecShallow == Init /\ [][NextShallow]_vars

\* ----- rbtree_search and rbtree_traverse step by step, side by side --------
\* Faulty variant: the descent walks tree->root itself down the tree.
SearchStep_movesRoot(m, k) ==
    LET t == m.t
        f == m.f
    IN  IF f.cur = NULL THEN [m EXCEPT !.f.pc = "done"]
        ELSE LET c == cmp(f.key, k[f.cur])
             IN  IF c < 0 THEN [t |-> [t EXCEPT !.root = t.left[f.cur]],
                                f |-> [f EXCEPT !.cur = t.left[f.cur]]]
                 ELSE IF c > 0 THEN [t |-> [t EXCEPT !.root = t.right[f.cur]],
                                     f |-> [f EXCEPT !.cur = t.right[f.cur]]]
                 ELSE [m EXCEPT !.f.pc = "done"]

\* One evaluation of the while condition of rbtree_search and its body.
SearchStep(m, k) ==
    LET t == m.t
        f == m.f
    IN  IF f.cur = NULL THEN [m EXCEPT !.f.pc = "done"]
        ELSE LET c == cmp(f.key, k[f.cur])
             IN  IF c < 0 THEN [m EXCEPT !.f.cur = t.left[f.cur]]
                 ELSE IF c > 0 THEN [m EXCEPT !.f.cur = t.right[f.cur]]
                 ELSE [m EXCEPT !.f.pc = "done"]

\* The recursion of _traverse as a stack of activations [node, at]: at is
\* "enter" on entry, "left" while the call on node->left is out, "right"
\* while the call on node->right is out.  f.rc holds the value the last
\* activation returned.
Push(stack, node) == Append(stack, [node |-> node, at |-> "enter"])

Pop(stack) == SubSeq(stack, 1, Len(stack) - 1)

Returned(f, rc) ==
    [f EXCEPT !.stack = Pop(f.stack),
              !.rc = rc,
              !.pc = IF Len(f.stack) = 1 THEN "done" ELSE "run"]

TraverseStep(m) ==
    LET t == m.t
        f == m.f
        top == f.stack[Len(f.stack)]
        node == top.node
        at(a) == [f.stack EXCEPT ![Len(f.stack)].at = a]
    IN  IF top.at = "enter"
        THEN IF node = NULL THEN [m EXCEPT !.f = Returned(f, 0)]
             ELSE [m EXCEPT !.f.stack = Push(at("left"), t.left[node])]
        ELSE IF top.at = "left"
        THEN IF f.rc # 0 THEN [m EXCEPT !.f = Returned(f, f.rc)]
             ELSE LET c == Callback(node, f.stopAt, f.code)
                      f1 == [f EXCEPT !.scratch = Append(f.scratch, node)]
                  IN  IF c # 0 THEN [m EXCEPT !.f = Returned(f1, c)]
                      ELSE [m EXCEPT !.f =
                              [f1 EXCEPT !.stack =
                                  Push(at("right"), t.right[node])]]
        ELSE IF f.rc # 0 THEN [m EXCEPT !.f = Returned(f, f.rc)]
             ELSE [m EXCEPT !.f = Returned(f, 0)]

\* The tree is built while no reader runs and is left alone while one does.
InsertQuiet ==
    /\ Quiet
    /\ used < MaxReadNodes
    /\ \E kv \in Keys, g \in Uninit(used + 1) : DoInsert(kv, g)

SearchCall ==
    /\ ins.pc = "idle"
    /\ srch.pc = "idle"
    /\ \E kv \in Keys :
         srch' = [IdleSearch EXCEPT !.pc = "loop", !.key = kv,
                                    !.cur = tree.root]
    /\ UNCHANGED <<contVars, listVars, ndebug, tree, key, used, ins, ret, trav>>

SearchLoop ==
    /\ srch.pc = "loop"
    /\ LET m == SearchStep([t |-> tree, f |-> srch], key)
       IN  tree' = m.t /\ srch' = m.f
    /\ UNCHANGED <<contVars, listVars, ndebug, key, used, ins, ret, trav>>

SearchReturn ==
    /\ srch.pc = "done"
    /\ srch' = IdleSearch
    /\ UNCHANGED <<contVars, listVars, ndebug, tree, key, used, ins, ret, trav>>

TraverseCall ==
    /\ ins.pc = "idle"
    /\ trav.pc = "idle"
    /\ \E stopAt \in 0..used :
         trav' = [pc |-> "run", stopAt |-> stopAt, code |-> 3,
                  stack |-> Push(<<>>, tree.root), rc |-> 0,
                  scratch |-> <<>>]
    /\ UNCHANGED <<contVars, listVars, ndebug, tree, key, used, ins, ret, srch>>

TraverseRun ==
    /\ trav.pc = "run"
    /\ LET m == TraverseStep([t |-> tree, f |-> trav])
       IN  tree' = m.t /\ trav' = m.f
    /\ UNCHANGED <<contVars, listVars, ndebug, key, used, ins, ret, srch>>

TraverseReturn ==
    /\ trav.pc = "done"
    /\ trav' = IdleTraverse
    /\ UNCHANGED <<contVars, listVars, ndebug, tree, key, used, ins, ret, srch>>

NextReaders ==
    \/ InsertQuiet
    \/ SearchCall
    \/ SearchLoop
    \/ SearchReturn
    \/ TraverseCall
    \/ TraverseRun
    \/ TraverseReturn

SpecReaders == Init /\ [][NextReaders]_vars

\* ----- rbtree_insert in one thread, rbtree_search in another, no lock ------
\* The inserting thread takes one step per pointer store (the loads that feed
\* a store go with it; color stores go with the step they follow, no other
\* thread reads colors).  The searching thread takes one step per loop
\* iteration: one comparison and one load of a child pointer.  Steps of the
\* two threads interleave in any order; each load sees the last store.
\* A search may be called while an insert is running; an insert is called
\* only when no search is running, which leaves out no interleaving of one
\* search with one insert (a search called first has read nothing yet).
RaceInsertCall ==
    /\ ins.pc = "idle"
    /\ srch.pc = "idle"
    /\ used < MaxReadNodes
    /\ \E kv \in Keys, g \in Uninit(used + 1) :
         LET node == used + 1
             m == InsertEntry(WithFields(tree, node, g), node, ndebug)
         IN  /\ key' = [key EXCEPT ![node] = kv]
             /\ used' = node
             /\ tree' = m.t
             /\ ins' = m.f
    /\ UNCHANGED <<contVars, listVars, ndebug, ret, srch, trav>>

RaceInsertInner ==
    /\ ins.pc \in {"inner", "innerL2", "innerL3", "innerR2", "innerR3"}
    /\ LET m == StoreInner([t |-> tree, f |-> ins])
       IN  tree' = m.t /\ ins' = m.f
    /\ UNCHANGED <<contVars, listVars, ndebug, key, used, ret, srch, trav>>

RaceInsertOuter ==
    /\ ins.pc \in {"outer", "outerL2", "outerL3", "outerR2", "outerR3"}
    /\ LET m == StoreOuter([t |-> tree, f |-> ins], ndebug)
       IN  tree' = m.t /\ ins' = m.f
    /\ UNCHANGED <<contVars, listVars, ndebug, key, used, ret, srch, trav>>

RaceSearchCall ==
    /\ srch.pc = "idle"
    /\ \E kv \in Keys :
         srch' = [IdleSearch EXCEPT
                    !.pc = "loop", !.key = kv, !.cur = tree.root,
                    !.during = IF ins.pc = "idle" THEN NULL ELSE used]
    /\ UNCHANGED <<contVars, listVars, ndebug, tree, key, used, ins, ret, trav>>

NextRace ==
    \/ RaceInsertCall
    \/ InsertDescend
    \/ InsertFixup
    \/ RaceInsertInner
    \/ RaceInsertOuter
    \/ InsertReturn
    \/ RaceSearchCall
    \/ SearchLoop
    \/ SearchReturn

SpecRace == Init /\ [][NextRace]_vars

\* ===== list.c: circular doubly linked list with a sentinel ================
\* A struct list_elem is identified by its address: the caller's elements are
\* 1..MaxElems and &l->sentinal of list l is 0 - l.  lmem.prev[a] and
\* lmem.next[a] are the two fields of the element at address a.
Elems == 1..MaxElems

\* The elements the caller of SpecList uses.
RingElems == 1..MaxRingElems

Lists == {1, 2}

Sentinal(l) == 0 - l

Addrs == Elems \cup {Sentinal(l) : l \in Lists}

\* Storage no list function has written yet.
NoLists == [prev |-> [a \in Addrs |-> NULL], next |-> [a \in Addrs |-> NULL]]

\* l->sentinal.prev = l->sentinal.next = &l->sentinal;
list_init(m, l) ==
    [m EXCEPT !.prev[Sentinal(l)] = Sentinal(l),
              !.next[Sentinal(l)] = Sentinal(l)]

list_head(m, l) == m.next[Sentinal(l)]

list_tail(m, l) == m.prev[Sentinal(l)]

list_begin(m, l) == list_head(m, l)

list_next(m, e) == m.next[e]

list_prev(m, e) == m.prev[e]

list_end(l) == Sentinal(l)

list_isempty(m, l) == m.prev[Sentinal(l)] = Sentinal(l)

\* to_add->next = prev->next; to_add->prev = prev;
\* prev->next->prev = to_add; prev->next = to_add;
list_insert(m, prev, to_add) ==
    LET m1 == [m EXCEPT !.next[to_add] = m.next[prev]]
        m2 == [m1 EXCEPT !.prev[to_add] = prev]
        m3 == [m2 EXCEPT !.prev[m2.next[prev]] = to_add]
    IN  [m3 EXCEPT !.next[prev] = to_add]

list_pushfront(m, l, e) == list_insert(m, Sentinal(l), e)

\* Faulty variant: the element goes in before the tail.
list_pushback_beforeTail(m, l, e) ==
    list_insert(m, m.prev[m.prev[Sentinal(l)]], e)

list_pushback(m, l, e) == list_insert(m, m.prev[Sentinal(l)], e)

\* Faulty variant: the next element keeps pointing back at e.
list_remove_halfUnlinked(m, e) ==
    [m |-> [m EXCEPT !.next[m.prev[e]] = m.next[e]], e |-> e]

\* e->prev->next = e->next; e->next->prev = e->prev; return e;
\* The result is the memory after the call and the pointer returned.
list_remove(m, e) ==
    LET m1 == [m EXCEPT !.next[m.prev[e]] = m.next[e]]
    IN  [m |-> [m1 EXCEPT !.prev[m1.next[e]] = m1.prev[e]], e |-> e]

\* e = list_head(l); return list_remove(e);   (l is not empty)
list_popfront(m, l) == list_remove(m, list_head(m, l))

\* e = list_tail(l); return list_remove(e);   (l is not empty)
list_popback(m, l) == list_remove(m, list_tail(m, l))

\* Faulty variant: the head of src is not pointed back at the tail of dst.
list_cat_noBackLink(m, dst, src) ==
    IF list_isempty(m, src) THEN m
    ELSE LET head_src == list_head(m, src)
             tail_src == list_tail(m, src)
             tail_dst == list_tail(m, dst)
             m1 == [m EXCEPT !.next[tail_dst] = head_src]
             m3 == [m1 EXCEPT !.next[tail_src] = Sentinal(dst)]
         IN  [m3 EXCEPT !.prev[Sentinal(dst)] = tail_src]

\* tail_dst->next = head_src; head_src->prev = tail_dst;
\* tail_src->next = &dst->sentinal; dst->sentinal.prev = tail_src;
list_cat(m, dst, src) ==
    IF list_isempty(m, src) THEN m
    ELSE LET head_src == list_head(m, src)
             tail_src == list_tail(m, src)
             tail_dst == list_tail(m, dst)
             m1 == [m EXCEPT !.next[tail_dst] = head_src]
             m2 == [m1 EXCEPT !.prev[head_src] = tail_dst]
             m3 == [m2 EXCEPT !.next[tail_src] = Sentinal(dst)]
         IN  [m3 EXCEPT !.prev[Sentinal(dst)] = tail_src]

\* for (e = list_begin(l); e != list_end(l); e = list_next(e)): the elements
\* the loop visits, at most fuel of them.
RECURSIVE Iterate(_, _, _, _)
Iterate(m, e, end, fuel) ==
    IF e = end \/ fuel = 0 THEN <<>>
    ELSE <<e>> \o Iterate(m, list_next(m, e), end, fuel - 1)

\* ----- the callers of list.c ------------------------------------------------
\* at[e] is the list the caller has put element e in (0: in none); pushed and
\* popped are the elements the queue test has pushed and got back, in order.
NoCall ==
    [op |-> "none", e |-> NULL, pushed |-> <<>>, popped |-> <<>>,
     at |-> [e \in Elems |-> 0]]

\* struct list uut, src; list_init(&uut); list_init(&src);
ListInit ==
    /\ ndebug = FALSE
    /\ tree = EmptyTree
    /\ key = [n \in Nodes |-> 0]
    /\ used = 0
    /\ ins = IdleFrame
    /\ ret = NoRet
    /\ srch = IdleSearch
    /\ trav = IdleTraverse
    /\ lmem = list_init(list_init(NoLists, 1), 2)
    /\ lcall = NoCall
    /\ ContUnused

\* list_insert(p, e): p is in the list or is its sentinel, e is in no list
ListInsert ==
    /\ \E e \in RingElems :
       \E p \in {Sentinal(1)} \cup {x \in RingElems : lcall.at[x] = 1} :
         /\ lcall.at[e] = 0
         /\ lmem' = list_insert(lmem, p, e)
         /\ lcall' = [lcall EXCEPT !.op = "insert", !.e = e, !.at[e] = 1]
    /\ UNCHANGED <<rbVars, contVars>>

ListPushFront ==
    /\ \E e \in RingElems :
         /\ lcall.at[e] = 0
         /\ lmem' = list_pushfront(lmem, 1, e)
         /\ lcall' = [lcall EXCEPT !.op = "pushfront", !.e = e, !.at[e] = 1]
    /\ UNCHANGED <<rbVars, contVars>>

ListPushBack ==
    /\ \E e \in RingElems :
         /\ lcall.at[e] = 0
         /\ lmem' = list_pushback(lmem, 1, e)
         /\ lcall' = [lcall EXCEPT !.op = "pushback", !.e = e, !.at[e] = 1]
    /\ UNCHANGED <<rbVars, contVars>>

ListRemove ==
    /\ \E e \in RingElems :
         /\ lcall.at[e] = 1
         /\ LET r == list_remove(lmem, e)
            IN  /\ lmem' = r.m
                /\ lcall' = [lcall EXCEPT !.op = "remove", !.e = r.e,
                                          !.at[e] = 0]
    /\ UNCHANGED <<rbVars, contVars>>

ListPopFront ==
    /\ ~list_isempty(lmem, 1)
    /\ LET r == list_popfront(lmem, 1)
       IN  /\ lmem' = r.m
           /\ lcall' = [lcall EXCEPT !.op = "popfront", !.e = r.e,
                                     !.at[r.e] = 0]
    /\ UNCHANGED <<rbVars, contVars>>

ListPopBack ==
    /\ ~list_isempty(lmem, 1)
    /\ LET r == list_popback(lmem, 1)
       IN  /\ lmem' = r.m
           /\ lcall' = [lcall EXCEPT !.op = "popback", !.e = r.e,
                                     !.at[r.e] = 0]
    /\ UNCHANGED <<rbVars, contVars>>

NextList ==
    \/ ListInsert
    \/ ListPushFront
    \/ ListPushBack
    \/ ListRemove
    \/ ListPopFront
    \/ ListPopBack

SpecList == ListInit /\ [][NextList]_vars

\* The queue: list_pushback and list_popfront in any order, at most MaxPushes
\* pushes; an element that was popped may be pushed again.
QueuePush ==
    /\ Len(lcall.pushed) < MaxPushes
    /\ \E e \in Elems :
         /\ lcall.at[e] = 0
         /\ lmem' = list_pushback(lmem, 1, e)
         /\ lcall' = [lcall EXCEPT !.op = "pushback", !.e = e, !.at[e] = 1,
                                   !.pushed = Append(@, e)]
    /\ UNCHANGED <<rbVars, contVars>>

QueuePop ==
    /\ ~list_isempty(lmem, 1)
    /\ LET r == list_popfront(lmem, 1)
       IN  /\ lmem' = r.m
           /\ lcall' = [lcall EXCEPT !.op = "popfront", !.e = r.e,
                                     !.at[r.e] = 0,
                                     !.popped = Append(@, r.e)]
    /\ UNCHANGED <<rbVars, contVars>>

NextQueue == QueuePush \/ QueuePop

SpecQueue == ListInit /\ [][NextQueue]_vars

\* Two lists are filled at either end, then list_cat(&uut, &src) is called.
CatPush ==
    /\ lcall.op # "cat"
    /\ \E e \in Elems, l \in Lists :
         /\ lcall.at[e] = 0
         /\ \/ lmem' = list_pushback(lmem, l, e)
            \/ lmem' = list_pushfront(lmem, l, e)
         /\ lcall' = [lcall EXCEPT !.op = "push", !.e = e, !.at[e] = l]
    /\ UNCHANGED <<rbVars, contVars>>

Cat ==
    /\ lcall.op # "cat"
    /\ lmem' = list_cat(lmem, 1, 2)
    /\ lcall' = [lcall EXCEPT
                   !.op = "cat", !.e = NULL,
                   !.at = [e \in Elems |-> IF lcall.at[e] = 2 THEN 1
                                           ELSE lcall.at[e]]]
    /\ UNCHANGED <<rbVars, contVars>>

NextCat == CatPush \/ Cat

SpecCat == ListInit /\ [][NextCat]_vars

\* ----- notions the properties are stated in -------------------------------
RECURSIVE Reach(_, _)
Reach(t, n) ==
    IF n = NULL THEN {}
    ELSE {n} \cup Reach(t, t.left[n]) \cup Reach(t, t.right[n])

\* Number of nodes on the longest path from n down to a leaf.
RECURSIVE Height(_, _)
Height(t, n) ==
    IF n = NULL THEN 0
    ELSE LET l == Height(t, t.left[n])
             r == Height(t, t.right[n])
         IN  1 + (IF l >= r THEN l ELSE r)

\* The numbers of black nodes met on the paths from n down to an absent child.
RECURSIVE BlackCounts(_, _)
BlackCounts(t, n) ==
    IF n = NULL THEN {0}
    ELSE LET b == IF t.color[n] = RB_BLACK THEN 1 ELSE 0
         IN  {c + b : c \in BlackCounts(t, t.left[n])
                             \cup BlackCounts(t, t.right[n])}

RECURSIVE Pow2(_)
Pow2(e) == IF e = 0 THEN 1 ELSE 2 * Pow2(e - 1)

Range(q) == {q[i] : i \in DOMAIN q}

\* The nodes below n from left to right.
RECURSIVE InOrder(_, _)
InOrder(t, n) ==
    IF n = NULL THEN <<>>
    ELSE InOrder(t, t.left[n]) \o <<n>> \o InOrder(t, t.right[n])

\* Position of node n in sequence q (0 when absent).
IndexOf(q, n) ==
    IF \E i \in DOMAIN q : q[i] = n
    THEN CHOOSE i \in DOMAIN q : q[i] = n
    ELSE 0

Completed == ins.pc = "idle" /\ used > 0

\* No call of rbtree_insert ends in a failed assertion or a bad access.
NoAbort == ins.pc # "abort"

\* ----- properties ----------------------------------------------------------

\* C1: after every completed rbtree_insert the root is non-NULL and RB_BLACK.
C1_RootBlack ==
    Completed => tree.root # NULL /\ tree.color[tree.root] = RB_BLACK

\* An insertion that replaced the root by a rotation has completed.
C1_Witness ==
    /\ Completed /\ ret.op = "insert" /\ used >= 3
    /\ tree.root # 1 /\ tree.color[tree.root] = RB_BLACK

\* C2: after every completed rbtree_insert no RB_RED node reachable from the
\* root has an RB_RED left or right child.
C2_NoRedRed ==
    Completed =>
        \A n \in Reach(tree, tree.root) :
            tree.color[n] = RB_RED =>
                \A c \in {tree.left[n], tree.right[n]} \ {NULL} :
                    tree.color[c] # RB_RED

\* A red node with two (black) children exists after a completed insertion.
C2_Witness ==
    /\ Completed /\ ret.op = "insert"
    /\ \E n \in Reach(tree, tree.root) :
          /\ tree.color[n] = RB_RED
          /\ tree.left[n] # NULL /\ tree.right[n] # NULL

\* C3: after every completed rbtree_insert every node has the same number of
\* RB_BLACK nodes on all its downward paths to absent children, and
\* _get_black_depth(root) is not -1.
C3_BlackDepth ==
    Completed =>
        /\ \A n \in Reach(tree, tree.root) :
              Cardinality(BlackCounts(tree, n)) = 1
        /\ _get_black_depth(tree, tree.root) # -1

\* A tree with two black levels and a red node has been built.
C3_Witness ==
    /\ Completed /\ ret.op = "insert" /\ used >= 5
    /\ _get_black_depth(tree, tree.root) = 3
    /\ \E n \in Reach(tree, tree.root) : tree.color[n] = RB_RED

\* C4: rbtree_traverse calls the callback on nodes in non-decreasing
\* comparator order.
C4_TraverseSorted ==
    ret.op = "traverse" =>
        \A i \in 1..(Len(ret.scratch) - 1) :
            cmp(key[ret.scratch[i + 1]], key[ret.scratch[i]]) >= 0

\* A traversal of five or more nodes, inserted out of order and with equal
\* keys among them, has run.
C4_Witness ==
    /\ ret.op = "traverse" /\ Len(ret.scratch) >= 5
    /\ \E i \in 1..(Len(ret.scratch) - 1) :
          key[ret.scratch[i + 1]] = key[ret.scratch[i]]
    /\ \E i \in 1..(Len(ret.scratch) - 1) :
          ret.scratch[i + 1] < ret.scratch[i]

\* C5: rbtree_search returns a member that compares equal to the key when an
\* inserted node compares equal to it, and NULL exactly when none does.
C5_SearchFinds ==
    ret.op = "search" =>
        LET eq == {n \in 1..used : cmp(ret.key, key[n]) = 0}
        IN  /\ eq # {} => ret.node \in eq \cap Reach(tree, tree.root)
            /\ ret.node = NULL <=> eq = {}

\* A search found one of several equal nodes below the root.
C5_Witness ==
    /\ ret.op = "search" /\ ret.node # NULL /\ ret.node # tree.root
    /\ Cardinality({n \in 1..used : key[n] = ret.key}) >= 2

\* C6: with a callback that always returns 0, rbtree_traverse calls it once
\* for each inserted node and returns 0.
C6_TraverseVisitsAll ==
    (ret.op = "traverse" /\ ret.stopAt = NULL) =>
        /\ ret.rc = 0
        /\ Len(ret.scratch) = used
        /\ Range(ret.scratch) = 1..used

\* A full traversal of a tree of five or more nodes has run.
C6_Witness ==
    /\ ret.op = "traverse" /\ ret.stopAt = NULL
    /\ used >= 5 /\ Len(ret.scratch) = used

\* C7: after inserting n nodes with pairwise distinct keys the height h of
\* the tree satisfies 2^h <= (n+1)^2.
C7_HeightBound ==
    Completed => Pow2(Height(tree, tree.root)) <= (used + 1) * (used + 1)

\* Six distinct keys have been inserted and the tree is four nodes high.
C7_Witness ==
    /\ Completed /\ used >= 6
    /\ \A a, b \in 1..used : a # b => key[a] # key[b]
    /\ Height(tree, tree.root) = 4

\* C8: every call of rbtree_insert terminates; the descent loop ends at an
\* absent child slot, where the new node is stored; the fixup loop repeats
\* only when parent and uncle are red, and each repeat lowers the path index
\* by two; at the root or under a black parent the call returns.
C8_InsertTerminates ==
    /\ (ins.pc \in {"descend", "fixup", "inner", "outer"}) ~> (ins.pc = "done")
    /\ [][(ins.pc = "descend" /\ ins'.pc = "fixup") =>
             /\ Deref(tree, ins.backtrace[ins.current]) = NULL
             /\ Deref(tree', ins.backtrace[ins.current]) = ins.node
             /\ ins'.current = ins.current]_vars
    /\ [][(ins.pc = "fixup" /\ ins'.pc = "fixup") =>
             LET parent == Deref(tree, ins.backtrace[ins.current - 1])
                 uncle == ins.uncles[ins.current]
             IN  /\ ins.current >= 2
                 /\ tree.color[parent] = RB_RED
                 /\ uncle # NULL /\ tree.color[uncle] = RB_RED
                 /\ ins'.current = ins.current - 2]_vars
    /\ [][(/\ ins.pc = "fixup"
           /\ LET node == Deref(tree, ins.backtrace[ins.current])
              IN  \/ node = tree.root
                  \/ tree.color[Deref(tree, ins.backtrace[ins.current - 1])]
                        = RB_BLACK)
          => ins'.pc = "done"]_vars

\* A call has repeated the fixup loop and then returned at the root.
C8_Witness ==
    /\ ins.pc = "done" /\ ins.backtrack = 1 /\ ins.current = 0
    /\ DOMAIN ins.backtrace = 0..2
    /\ ins.node = tree.root

\* C9: rbtree_insert into an empty tree makes the inserted node the root,
\* colored RB_BLACK, with both children NULL.
C9_InsertEmpty ==
    [][(tree.root = NULL /\ used' = used + 1) =>
          /\ ins'.pc = "idle"
          /\ tree'.root = used'
          /\ tree'.color[used'] = RB_BLACK
          /\ tree'.left[used'] = NULL
          /\ tree'.right[used'] = NULL]_vars

\* The first node has been inserted and is the root.
C9_Witness ==
    /\ used = 1 /\ ret.op = "insert" /\ ret.node = 1
    /\ tree.root = 1 /\ tree.color[1] = RB_BLACK

\* C10: rbtree_search and rbtree_traverse never modify the tree, and a search
\* and a traversal whose steps interleave return what each returns when run
\* alone on the tree.
C10_ReadOnly ==
    /\ [][(srch' # srch \/ trav' # trav) => tree' = tree]_vars
    /\ [](srch.pc = "done" => srch.cur = rbtree_search(tree, key, srch.key))
    /\ [](trav.pc = "done" =>
            LET r == rbtree_traverse(tree, trav.stopAt, trav.code)
            IN  trav.rc = r.rc /\ trav.scratch = r.scratch)

\* A search has ended below the root while a traversal is part way through
\* the same tree.
C10_Witness ==
    /\ used >= 3
    /\ srch.pc = "done" /\ srch.cur # NULL /\ srch.cur # tree.root
    /\ trav.pc = "run" /\ Len(trav.scratch) >= 2 /\ Len(trav.stack) >= 2

\* C11: when the callback returns a non-zero code at a node, rbtree_traverse
\* returns that code; the callback has run once on each node up to and
\* including that node, in ascending order, and on no node after it.
C11_TraverseStops ==
    (ret.op = "traverse" /\ ret.stopAt # NULL) =>
        LET all == InOrder(tree, tree.root)
            at == IndexOf(all, ret.stopAt)
        IN  /\ ret.rc = ret.code
            /\ at > 0
            /\ ret.scratch = SubSeq(all, 1, at)
            /\ \A i, j \in 1..at : i < j =>
                  /\ all[i] # all[j]
                  /\ cmp(key[all[j]], key[all[i]]) >= 0

\* A traversal was stopped with code -1 in the middle of the tree: nodes
\* before the stopping node were visited and nodes after it were not.
C11_Witness ==
    /\ ret.op = "traverse" /\ ret.stopAt # NULL /\ ret.code = -1
    /\ ret.rc = -1 /\ used >= 5
    /\ Len(ret.scratch) >= 3 /\ Len(ret.scratch) <= used - 2
    /\ ret.stopAt # tree.root

\* C12: rbtree_delete changes nothing: root, colors and links are the same
\* after the call, the node is still a member, and searches and traversals
\* give what they gave before.
C12_DeleteNoOp ==
    [][ret'.op = "delete" =>
          /\ tree' = tree
          /\ ret'.node \in Reach(tree', tree'.root)
          /\ rbtree_search(tree', key', ret'.key) # NULL
          /\ \A kv \in Keys :
                rbtree_search(tree', key', kv) = rbtree_search(tree, key, kv)
          /\ rbtree_traverse(tree', NULL, 0) = rbtree_traverse(tree, NULL, 0)
      ]_vars

\* rbtree_delete has been called on the root of a tree of several nodes.
C12_Witness ==
    /\ ret.op = "delete" /\ ret.node = tree.root /\ used >= 3
    /\ tree.left[tree.root] # NULL /\ tree.right[tree.root] # NULL

\* C13 as stated: rbtree_insert on a node that is already linked ends in a
\* failed assertion and never returns normally.
C13_DetectedFailFast ==
    [][ret'.op = "reinsert" => ins'.pc = "abort"]_vars

\* C13 as the code has it: nothing in rbtree_insert tests whether the node is
\* linked. With assertions compiled out the call always returns normally, and
\* whenever it returns normally the tree is changed and no longer a tree:
\* the node is below itself or has two parent slots. With assertions on, the
\* call returns like that, or the invariant check before the return fails or
\* does not come back.
C13_NotDetected ==
    [][ret'.op = "reinsert" =>
          /\ ndebug => ins'.pc = "idle"
          /\ ins'.pc \in {"idle", "abort", "diverged"}
          /\ ins'.pc = "idle" =>
                /\ tree' # tree
                /\ \/ Cyclic(tree')
                   \/ Cardinality(
                        {s \in {RootSlot} \cup {LeftSlot(n) : n \in 1..used}
                                          \cup {RightSlot(n) : n \in 1..used} :
                            Deref(tree', s) = ret'.node}) >= 2
      ]_vars

\* With assertions on, a node that is not the root was inserted a second
\* time and the call returned normally, leaving the node as its own child.
C13_Witness ==
    /\ ~ndebug /\ ret.op = "reinsert" /\ ins.pc = "idle"
    /\ used >= 3 /\ ret.node # tree.root
    /\ tree.right[ret.node] = ret.node

\* The nodes the descent has passed through: what the slots recorded below
\* the last one hold.
Passed(t, f) ==
    {Deref(t, f.backtrace[i]) : i \in (DOMAIN f.backtrace) \ {f.current}}

\* C14 as stated: in rbtree_insert no entry of backtrace[] or uncles[] is
\* written at an index that is not below the size of the arrays.
C14_InBounds ==
    /\ DOMAIN ins.backtrace \subseteq 0..(ins.depth - 1)
    /\ DOMAIN ins.uncles \subseteq 0..(ins.depth - 1)

\* C14 with assertions enabled: the index is checked before backtrace[] or
\* uncles[] is written at it, so both stay in bounds, and the check fails only
\* after the descent has passed through as many existing nodes as the arrays
\* have elements. With assertions compiled out there is no check: such a
\* descent writes uncles[] at the index equal to the size of the array.
C14_AssertGuardsIndex ==
    /\ ~ndebug =>
          /\ DOMAIN ins.backtrace \subseteq 0..(ins.depth - 1)
          /\ DOMAIN ins.uncles \subseteq 0..(ins.depth - 1)
          /\ ins.pc # "undefined"
          /\ ins.pc = "abort" =>
                /\ ins.current = ins.depth
                /\ ins.current \notin DOMAIN ins.uncles
                /\ ins.current \notin DOMAIN ins.backtrace
                /\ NULL \notin Passed(tree, ins)
                /\ Cardinality(Passed(tree, ins)) >= ins.depth
    /\ ndebug =>
          /\ ins.pc # "abort"
          /\ ins.pc = "undefined" <=> ins.depth \in DOMAIN ins.uncles
          /\ ins.pc = "undefined" =>
                Cardinality(Passed(tree, ins)) >= ins.depth

\* With assertions enabled a descent through MaxDepth nodes was stopped by
\* the assertion with nothing written at index MaxDepth.
C14_Witness ==
    /\ ~ndebug /\ ins.pc = "abort" /\ ins.depth = MaxDepth
    /\ ins.current = MaxDepth
    /\ DOMAIN ins.uncles = 1..(MaxDepth - 1)
    /\ DOMAIN ins.backtrace = 0..(MaxDepth - 1)

\* The nodes whose insertion had returned before the insertion of node
\* began (all inserted nodes when node is NULL) and that carry key kv.
MembersBefore(node, kv) ==
    {n \in 1..used : key[n] = kv /\ (node = NULL \/ n < node)}

\* C15: an rbtree_search that runs while no rbtree_insert is running finds
\* every member key; one that overlaps an rbtree_insert can only err by
\* returning NULL: what it returns non-NULL carries the key searched for.
\* The unsafe interleaving itself is the state C15_Witness.
C15_OnlyOverlapMisses ==
    srch.pc = "done" =>
        /\ srch.cur # NULL => key[srch.cur] = srch.key
        /\ (srch.during = NULL /\ MembersBefore(NULL, srch.key) # {})
              => srch.cur # NULL

\* rbtree_search has returned NULL for a key whose node was a member before
\* the overlapping rbtree_insert began, and is linked under the root again
\* once that insert has finished its stores.
C15_Witness ==
    /\ srch.pc = "done" /\ srch.cur = NULL /\ srch.during # NULL
    /\ MembersBefore(srch.during, srch.key) # {}
    /\ ins.pc = "done" /\ used = srch.during
    /\ MembersBefore(srch.during, srch.key) \subseteq Reach(tree, tree.root)

\* C16: with assertions enabled, every rbtree_insert that returns has run
\* RBCHECK twice: on entry, and again after the mutation just before the
\* return.
C16_CheckedOnEveryPath ==
    (~ndebug /\ ins.pc = "done") => ins.rbchecks = 2

\* Some node under the root is RED and has a RED child.
RedRed(t) ==
    \E n \in Reach(t, t.root) :
        /\ t.color[n] = RB_RED
        /\ \/ t.left[n] # NULL /\ t.color[t.left[n]] = RB_RED
           \/ t.right[n] # NULL /\ t.color[t.right[n]] = RB_RED

\* C17: _check_red_nodes(root), in either copy of rbtree.c, returns -1 when
\* some node at any depth below root is RED with a RED child, and 0 otherwise.
C17_RedCheckAnyDepth ==
    ret.op \in {"_check_red_nodes", "_check_red_nodes_first"} =>
        ret.rc = IF RedRed(tree) THEN -1 ELSE 0

\* The copy of _check_red_nodes at lines 512-535 alone does what C17 says.
RecursiveRedCheckExact ==
    ret.op = "_check_red_nodes" => ret.rc = IF RedRed(tree) THEN -1 ELSE 0

\* The copy at lines 89-100 answers for the node it is given only.
FirstRedCheckRootOnly ==
    ret.op = "_check_red_nodes_first" =>
        ret.rc = IF /\ tree.root # NULL
                    /\ tree.color[tree.root] = RB_RED
                    /\ \E c \in Kids(tree, {tree.root}) :
                          tree.color[c] = RB_RED
                 THEN -1 ELSE 0

\* What iterating list l from list_begin to list_end yields.
Contents(m, l) == Iterate(m, list_begin(m, l), list_end(l), MaxElems + 1)

\* The ring through the sentinel of l: every element on it, the sentinel
\* included, is the prev of its next and the next of its prev.
RingOK(m, l) ==
    /\ Len(Contents(m, l)) <= MaxElems
    /\ \A e \in Range(Contents(m, l)) \cup {Sentinal(l)} :
          /\ m.next[e] \in Addrs /\ m.prev[e] \in Addrs
          /\ m.prev[m.next[e]] = e
          /\ m.next[m.prev[e]] = e

\* Sequence q without its element at position i.
Without(q, i) == SubSeq(q, 1, i - 1) \o SubSeq(q, i + 1, Len(q))

\* C18: with list_pushback and list_popfront interleaved in any order,
\* list_popfront returns the elements in the order they were pushed.
C18_Fifo ==
    /\ Len(lcall.popped) <= Len(lcall.pushed)
    /\ lcall.popped = SubSeq(lcall.pushed, 1, Len(lcall.popped))
    /\ Contents(lmem, 1)
         = SubSeq(lcall.pushed, Len(lcall.popped) + 1, Len(lcall.pushed))

\* Pushes and pops were interleaved: an element went through the queue
\* twice, three elements have been popped and two are waiting.
C18_Witness ==
    /\ Len(lcall.popped) >= 3
    /\ Len(Contents(lmem, 1)) >= 2
    /\ \E i, j \in DOMAIN lcall.pushed :
          i < j /\ lcall.pushed[i] = lcall.pushed[j]
    /\ lcall.op = "popfront"

\* C19: after any sequence of list_insert, list_pushfront, list_pushback,
\* list_remove and pops the list is a consistent ring through its sentinel
\* holding the elements put in and not taken out; list_remove(e) links the
\* former neighbours of e to each other and keeps the order of the others;
\* with every element removed the list is empty.
C19_RingConsistent ==
    /\ [](/\ RingOK(lmem, 1)
          /\ Range(Contents(lmem, 1)) = {e \in Elems : lcall.at[e] = 1}
          /\ Len(Contents(lmem, 1))
               = Cardinality({e \in Elems : lcall.at[e] = 1})
          /\ (\A e \in Elems : lcall.at[e] = 0) =>
                /\ list_isempty(lmem, 1)
                /\ list_begin(lmem, 1) = list_end(1))
    /\ [][lcall'.op = "remove" =>
            LET e == lcall'.e
                before == Contents(lmem, 1)
            IN  /\ lmem'.next[lmem.prev[e]] = lmem.next[e]
                /\ lmem'.prev[lmem.next[e]] = lmem.prev[e]
                /\ Contents(lmem', 1) = Without(before, IndexOf(before, e))
       ]_vars

\* list_remove has taken an element from between two others, and later the
\* last element was removed from a list that had held several.
C19_Witness ==
    /\ lcall.op = "remove"
    /\ list_isempty(lmem, 1)
    /\ lmem.prev[lcall.e] = Sentinal(1) /\ lmem.next[lcall.e] = Sentinal(1)
    /\ \E a \in Elems \ {lcall.e} :
          /\ lmem.next[a] \in Elems /\ lmem.prev[a] \in Elems
          /\ lmem.next[a] # lmem.prev[a]

\* C20: after list_cat(dst, src) iterating dst yields the former elements of
\* dst followed by those of src, the ring through dst's sentinel is
\* consistent and the head of a non-empty dst is unchanged; with src not
\* empty the tail of dst is the former tail of src, with src empty nothing
\* is changed.
C20_CatAppends ==
    [][lcall'.op = "cat" =>
          LET d == Contents(lmem, 1)
              s == Contents(lmem, 2)
          IN  /\ Contents(lmem', 1) = d \o s
              /\ RingOK(lmem', 1)
              /\ d # <<>> => list_head(lmem', 1) = list_head(lmem, 1)
              /\ s # <<>> => list_tail(lmem', 1) = list_tail(lmem, 2)
              /\ s = <<>> => lmem' = lmem
      ]_vars

\* list_cat has joined two lists of two elements each.
C20_Witness ==
    /\ lcall.op = "cat"
    /\ Len(Contents(lmem, 1)) = 4
    /\ list_tail(lmem, 1) = list_tail(lmem, 2)
    /\ list_head(lmem, 2) = Contents(lmem, 1)[3]

\* ===== pairing heap (pheap.c) ===============================================
\* A struct pheap_elem is identified by the address of its child_le, an
\* integer 1..MaxPhElems; its list of children is the struct list Children(pe).
\* pheap.mem holds the prev and next fields of every list_elem involved.
PhElems == 1..MaxPhElems

PhKeys == 0..MaxPhKey

Heaps == {1, 2}

\* &pe->children
Children(pe) == pe

\* struct list merged;   (the local of pheap_pop)
Merged == MaxPhElems + 1

PhAddrs == PhElems \cup {Sentinal(l) : l \in 1..(MaxPhElems + 1)}

\* return _a->n - _b->n;
uut_cmp(n, a, b) == n[a] - n[b]

pheap_elem_init(m, pe) == list_init(m, Children(pe))

\* ph->cmp = cmp; ph->root = NULL;
pheap_init(p, ph) == [p EXCEPT !.root[ph] = NULL]

pheap_peek(p, ph) == p.root[ph]

pheap_isempty(p, ph) == p.root[ph] = NULL

\* Faulty variant: pe0 becomes the root whatever the comparison says.
_merge_keepsFirst(m, n, pe0, pe1) ==
    [m |-> list_pushfront(m, Children(pe0), pe1), ret |-> pe0]

\* The result is the memory after the call and the element returned.
_merge(m, n, pe0, pe1) ==
    IF uut_cmp(n, pe0, pe1) < 0
    THEN [m |-> list_pushfront(m, Children(pe0), pe1), ret |-> pe0]
    ELSE [m |-> list_pushfront(m, Children(pe1), pe0), ret |-> pe1]

\* while (!list_isempty(src)) { left = popfront; if (!list_isempty(src))
\* { right = popfront; left = _merge(left, right); } pushfront(dst, left); }
RECURSIVE _merge_pairs_reverse(_, _, _, _)
_merge_pairs_reverse(m, n, dst, src) ==
    IF list_isempty(m, src) THEN m
    ELSE LET p1 == list_popfront(m, src)
             r == IF ~list_isempty(p1.m, src)
                  THEN LET p2 == list_popfront(p1.m, src)
                       IN  _merge(p2.m, n, p1.e, p2.e)
                  ELSE [m |-> p1.m, ret |-> p1.e]
         IN  _merge_pairs_reverse(list_pushfront(r.m, dst, r.ret),
                                  n, dst, src)

\* while (!list_isempty(src)) { front = popfront; ret = _merge(ret, front); }
RECURSIVE _accumulate_loop(_, _, _, _)
_accumulate_loop(m, n, src, cur) ==
    IF list_isempty(m, src) THEN [m |-> m, ret |-> cur]
    ELSE LET f == list_popfront(m, src)
             r == _merge(f.m, n, cur, f.e)
         IN  _accumulate_loop(r.m, n, src, r.ret)

_accumulate(m, n, src) ==
    IF list_isempty(m, src) THEN [m |-> m, ret |-> NULL]
    ELSE LET f == list_popfront(m, src)
         IN  _accumulate_loop(f.m, n, src, f.e)

\* if (pheap_isempty(ph)) ph->root = pe; else ph->root = _merge(root, pe);
pheap_push(p, ph, pe) ==
    IF pheap_isempty(p, ph) THEN [p EXCEPT !.root[ph] = pe]
    ELSE LET r == _merge(p.mem, p.n, p.root[ph], pe)
         IN  [p EXCEPT !.mem = r.m, !.root[ph] = r.ret]

\* The result is the heap after the call, the element returned and whether
\* the two assertions of the function held.
pheap_pop(p, ph) ==
    IF pheap_isempty(p, ph) THEN [p |-> p, ret |-> NULL, ok |-> TRUE]
    ELSE LET root == p.root[ph]
             m0 == list_init(p.mem, Merged)
             m1 == _merge_pairs_reverse(m0, p.n, Merged, Children(root))
             a == _accumulate(m1, p.n, Merged)
         IN  [p |-> [p EXCEPT !.mem = a.m, !.root[ph] = a.ret],
              ret |-> root,
              ok |-> list_isempty(m1, Children(root))
                     /\ list_isempty(a.m, Merged)]

\* Faulty variant: the root of src replaces the root of dst.
pheap_merge_overwrites(p, dst, src) ==
    IF ~pheap_isempty(p, src)
    THEN [p EXCEPT !.root[dst] = p.root[src], !.root[src] = NULL]
    ELSE p

\* if (!pheap_isempty(src)) { pheap_push(dst, src->root); src->root = NULL; }
pheap_merge(p, dst, src) ==
    IF ~pheap_isempty(p, src)
    THEN [pheap_push(p, dst, p.root[src]) EXCEPT !.root[src] = NULL]
    ELSE p

\* ----- the callers of pheap.c -----------------------------------------------
\* used: elements initialised and pushed so far; held[e]: the heap the caller
\* has element e in (0: in none); popped: the elements returned by the pops
\* made since the last push or merge, in order; nonempty: what
\* !pheap_isempty said before the last pop; moved: how many elements src
\* held when pheap_merge was called, if that was the last call.
NoPheap ==
    [mem |-> [prev |-> [a \in PhAddrs |-> NULL],
              next |-> [a \in PhAddrs |-> NULL]],
     root |-> [h \in Heaps |-> NULL],
     n |-> [e \in PhElems |-> 0],
     used |-> 0,
     held |-> [e \in PhElems |-> 0],
     popped |-> <<>>,
     moved |-> 0,
     op |-> "init", h |-> 0, e |-> NULL, nonempty |-> FALSE, ok |-> TRUE]

RbUnused ==
    /\ ndebug = FALSE
    /\ tree = EmptyTree
    /\ key = [n \in Nodes |-> 0]
    /\ used = 0
    /\ ins = IdleFrame
    /\ ret = NoRet
    /\ srch = IdleSearch
    /\ trav = IdleTraverse

ListUnused ==
    /\ lmem = [prev |-> <<>>, next |-> <<>>]
    /\ lcall = [op |-> "none"]

\* pheap_init(&uut0, cmp); pheap_init(&uut1, cmp);
PheapInit ==
    /\ RbUnused
    /\ ListUnused
    /\ kmpcall = Unused
    /\ pheap = pheap_init(pheap_init(NoPheap, 1), 2)
    /\ bheap = Unused
    /\ htable = Unused
    /\ blkalloc = Unused
    /\ vector = Unused

\* elems[i].n = rand(); pheap_elem_init(&elems[i].pe); pheap_push(ph, ...)
PhPushTo(ph, max, keys) ==
    /\ pheap.used < max
    /\ \E k \in keys :
         LET e == pheap.used + 1
             p0 == [pheap EXCEPT !.n[e] = k,
                                 !.mem = pheap_elem_init(pheap.mem, e)]
             p1 == pheap_push(p0, ph, e)
         IN  pheap' = [p1 EXCEPT !.used = e, !.held[e] = ph,
                                  !.popped = <<>>, !.moved = 0,
                                  !.op = "push",
                                  !.h = ph, !.e = e]
    /\ UNCHANGED <<rbVars, listVars, bheap, htable, blkalloc, vector, kmpcall>>

\* assert(!pheap_isempty(ph)); cur = pheap_peek(ph); pheap_pop(ph);
PhPopFrom(ph) ==
    /\ \E e \in PhElems : pheap.held[e] = ph
    /\ LET cur == pheap_peek(pheap, ph)
           r == pheap_pop(pheap, ph)
       IN  pheap' = [r.p EXCEPT !.held = [e \in PhElems |->
                                    IF e = cur THEN 0 ELSE pheap.held[e]],
                                 !.popped = Append(pheap.popped, cur),
                                 !.moved = 0,
                                 !.op = "pop", !.h = ph, !.e = r.ret,
                                 !.nonempty = ~pheap_isempty(pheap, ph),
                                 !.ok = r.ok]
    /\ UNCHANGED <<rbVars, listVars, bheap, htable, blkalloc, vector, kmpcall>>

PhPush == PhPushTo(1, MaxPhElems, PhKeys)

PhPop == PhPopFrom(1)

NextPheap == PhPush \/ PhPop

SpecPheap == PheapInit /\ [][NextPheap]_vars

\* pheap_push to either heap
PhPushAny == \E ph \in Heaps : PhPushTo(ph, MaxMergeElems, 0..MaxMergeKey)

PhPopAny == \E ph \in Heaps : PhPopFrom(ph)

\* pheap_merge(&uut0, &uut1);
PhMerge ==
    /\ \E dst, src \in Heaps :
         /\ dst # src
         /\ pheap' = [pheap_merge(pheap, dst, src) EXCEPT
                        !.held = [e \in PhElems |->
                                    IF pheap.held[e] = src THEN dst
                                    ELSE pheap.held[e]],
                        !.moved = Cardinality({e \in PhElems :
                                                  pheap.held[e] = src}),
                        !.popped = <<>>, !.op = "merge", !.h = dst,
                        !.e = NULL]
    /\ UNCHANGED <<rbVars, listVars, bheap, htable, blkalloc, vector, kmpcall>>

NextPheapMerge == PhPushAny \/ PhMerge \/ PhPopAny

SpecPheapMerge == PheapInit /\ [][NextPheapMerge]_vars

\* ----- properties of the pairing heap ---------------------------------------
PhHeld(ph) == {e \in PhElems : pheap.held[e] = ph}

PhSorted(n, q) == \A i \in 1..(Len(q) - 1) : n[q[i]] <= n[q[i + 1]]

\* The elements that pheap_peek/pheap_pop return until the heap is empty.
RECURSIVE Drain(_, _, _)
Drain(p, ph, fuel) ==
    IF pheap_isempty(p, ph) \/ fuel = 0 THEN <<>>
    ELSE LET r == pheap_pop(p, ph)
         IN  <<pheap_peek(p, ph)>> \o Drain(r.p, ph, fuel - 1)

\* C21: after pushing n elements in any order, successive pheap_peek /
\* pheap_pop pairs return the pushed elements in non-decreasing comparator
\* order; the heap is non-empty before each pop while it holds an element,
\* and empty once every element has been popped.
C21_PopsInOrder ==
    /\ \A i \in 1..Len(pheap.popped) : pheap.popped[i] \in PhElems
    /\ \A i, j \in 1..Len(pheap.popped) :
         i # j => pheap.popped[i] # pheap.popped[j]
    /\ PhSorted(pheap.n, pheap.popped)
    /\ pheap.op = "pop" =>
         /\ pheap.nonempty
         /\ pheap.ok
         /\ pheap.e = pheap.popped[Len(pheap.popped)]
         /\ \A e \in PhHeld(1) : pheap.n[pheap.e] <= pheap.n[e]
    /\ pheap_isempty(pheap, 1) <=> PhHeld(1) = {}

\* All MaxPhElems elements were pushed in an order that is not sorted, and
\* all of them have been popped again.
C21_Witness ==
    /\ pheap.op = "pop"
    /\ Len(pheap.popped) = MaxPhElems
    /\ pheap_isempty(pheap, 1)
    /\ pheap.n[1] > pheap.n[2]
    /\ pheap.n[2] < pheap.n[3]

\* C22: pheap_merge(dst, src) leaves src empty and dst holding every element
\* that was in either heap: popping dst until it is empty returns each of
\* them once, in non-decreasing order.
C22_MergeMovesAll ==
    [][pheap'.op = "merge" =>
         LET dst == pheap'.h
             src == 3 - dst
             q == Drain(pheap', dst, MaxMergeElems + 1)
         IN  /\ pheap_isempty(pheap', src)
             /\ Range(q) = PhHeld(1) \cup PhHeld(2)
             /\ Len(q) = Cardinality(PhHeld(1) \cup PhHeld(2))
             /\ PhSorted(pheap.n, q)]_vars

\* The caller's record of which heap holds which element agrees with what
\* popping each heap returns.
PhHeldIsContents ==
    \A ph \in Heaps :
        LET q == Drain(pheap, ph, MaxMergeElems + 1)
        IN  Range(q) = PhHeld(ph) /\ Len(q) = Cardinality(PhHeld(ph))

\* A merge of a heap of two elements into a heap that held another.
C22_Witness ==
    /\ pheap.op = "merge"
    /\ pheap.moved >= 2
    /\ Cardinality(PhHeld(pheap.h)) > pheap.moved

\* ===== vector of pointers (vector.c) and binary heap (binheap.c) ============
\* binheap.c keeps its elements, void pointers, in the struct vector of
\* vector.c.  A pointer is modelled by its integer value, NULL by 0.  The
\* functions of vector.c carry the prefix pvec_ here, because the vector of
\* arbitrary element size further down defines the same names.
\* sizeof(void *)
VEC_ELEMSIZE == 8

DEF_VEC_SIZE == 32

\* The pointers the tests push: (void *)(long)(rand() % TEST_VALUE).
BhVals == 0..MaxBhVal

\* The size argument the tests give bheap_init, in bytes.
BhInitSizes == {0, VEC_ELEMSIZE, 2 * VEC_ELEMSIZE}

\* What a cell holds that realloc returned and nobody has written.
Junk == 0 - 1

\* ok says whether realloc returned a block.  The result is the vector after
\* the call and the return code.  realloc(data, 0) that returns NULL has
\* released the block: no cell of it is left, data dangles.
pvec_resize(v, size, ok) ==
    IF ~ok
    THEN [v |-> IF size = 0
                THEN [v EXCEPT !.data = [i \in 0..(0 - 1) |-> Junk]]
                ELSE v,
          rc |-> 0 - 1]
    ELSE [v |-> [v EXCEPT
                   !.data = [i \in 0..((size \div VEC_ELEMSIZE) - 1) |->
                               IF i \in DOMAIN v.data THEN v.data[i]
                               ELSE Junk],
                   !.space = size \div VEC_ELEMSIZE],
          rc |-> 0]

pvec_init(size, ok) ==
    LET space == IF size = 0 THEN DEF_VEC_SIZE ELSE size \div VEC_ELEMSIZE
        bytes == IF size = 0 THEN DEF_VEC_SIZE * VEC_ELEMSIZE ELSE size
    IN  pvec_resize([size |-> 0, space |-> space, data |-> <<>>], bytes, ok)

\* vec_resize(v, 0); the return code is dropped.
pvec_free(v, ok) == pvec_resize(v, 0, ok).v

pvec_size(v) == v.size

pvec_space(v) == v.space

pvec_isempty(v) == pvec_size(v) = 0

pvec_get(v, i) == v.data[i]

pvec_set(v, i, e) == [v EXCEPT !.data[i] = e]

pvec_head(v) == IF pvec_isempty(v) THEN NULL ELSE pvec_get(v, 0)

pvec_tail(v) == IF pvec_isempty(v) THEN NULL ELSE pvec_get(v, pvec_size(v) - 1)

\* if (vec_size(v) == vec_space(v)) rc = vec_resize(v, 2 * size * ELEMSIZE);
pvec_checkspace(v, ok) ==
    IF pvec_size(v) = pvec_space(v)
    THEN pvec_resize(v, 2 * pvec_size(v) * VEC_ELEMSIZE, ok)
    ELSE [v |-> v, rc |-> 0]

\* rc = _checkspace(v); if (rc == 0) { v->size++; vec_set(v, size - 1, e); }
pvec_push(v, e, ok) ==
    LET c == pvec_checkspace(v, ok)
    IN  IF c.rc = 0
        THEN [v |-> pvec_set([c.v EXCEPT !.size = @ + 1], c.v.size, e),
              rc |-> 0]
        ELSE c

\* elem = vec_tail(v); if (elem != NULL) v->size--; return elem;
pvec_pop(v) ==
    LET elem == pvec_tail(v)
    IN  [v |-> IF elem # NULL THEN [v EXCEPT !.size = @ - 1] ELSE v,
         ret |-> elem]

\* tmp = vec_get(v, i); vec_set(v, i, vec_get(v, j)); vec_set(v, j, tmp);
pvec_swap(v, i, j) ==
    LET tmp == pvec_get(v, i)
    IN  pvec_set(pvec_set(v, i, pvec_get(v, j)), j, tmp)

\* return a - b;   (the comparator of the tests, on the pointers themselves)
bheap_cmp(a, b) == a - b

\* (i - 1) / 2 on unsigned int: for i = 0 the difference wraps to UINT_MAX
\* and the quotient is 2147483647.
_parent(i) == IF i = 0 THEN 2147483647 ELSE (i - 1) \div 2

_lchild(i) == 2 * i + 1

_rchild(i) == 2 * i + 2

\* Faulty variant: the node is swapped with its parent once and left there.
_siftup_once(v, i) ==
    LET p == _parent(i)
    IN  IF i > 0 /\ bheap_cmp(pvec_get(v, i), pvec_get(v, p)) < 0
        THEN pvec_swap(v, i, p)
        ELSE v

RECURSIVE _siftup(_, _)
_siftup(v, i) ==
    LET p == _parent(i)
    IN  IF i > 0 /\ bheap_cmp(pvec_get(v, i), pvec_get(v, p)) < 0
        THEN _siftup(pvec_swap(v, i, p), p)
        ELSE v

RECURSIVE _siftdown(_, _)
_siftdown(v, i) ==
    LET l == _lchild(i)
        r == _rchild(i)
        s1 == IF l < pvec_size(v)
                 /\ bheap_cmp(pvec_get(v, l), pvec_get(v, i)) < 0
              THEN l ELSE i
        smallest == IF r < pvec_size(v)
                       /\ bheap_cmp(pvec_get(v, r), pvec_get(v, s1)) < 0
                    THEN r ELSE s1
    IN  IF smallest # i
        THEN _siftdown(pvec_swap(v, i, smallest), smallest)
        ELSE v

\* rc counts the nodes that compare greater than a child; returns rc == 0.
_checkheap(v) ==
    \A i \in 0..(pvec_size(v) - 1) :
        /\ ~(_lchild(i) < pvec_size(v)
             /\ bheap_cmp(pvec_get(v, i), pvec_get(v, _lchild(i))) > 0)
        /\ ~(_rchild(i) < pvec_size(v)
             /\ bheap_cmp(pvec_get(v, i), pvec_get(v, _rchild(i))) > 0)

bheap_size(v) == pvec_size(v)

bheap_space(v) == pvec_space(v)

bheap_isempty(v) == pvec_isempty(v)

bheap_peek(v) == pvec_head(v)

\* The result is the vector after the call, the return code and whether the
\* two assert(_checkheap(bh)) of the function hold.
bheap_push(v, e, ok) ==
    LET r == pvec_push(v, e, ok)
        w == IF r.rc # 0 - 1 THEN _siftup(r.v, pvec_size(r.v) - 1) ELSE r.v
    IN  [v |-> w, rc |-> r.rc, asserts |-> _checkheap(v) /\ _checkheap(w)]

\* min = vec_head(v); tail = vec_pop(v);
\* if (!vec_isempty(v)) { vec_set(v, 0, tail); _siftdown(bh, 0); }
bheap_pop(v) ==
    LET min == pvec_head(v)
        t == pvec_pop(v)
        w == IF ~pvec_isempty(t.v)
             THEN _siftdown(pvec_set(t.v, 0, t.ret), 0)
             ELSE t.v
    IN  [v |-> w, ret |-> min, asserts |-> _checkheap(v) /\ _checkheap(w)]

\* ----- the callers of binheap.c ---------------------------------------------
\* vec: the struct vector inside struct binheap; op, e, rc: the last call,
\* its argument or result; before: bheap_size before the call; peeked: what
\* bheap_peek returned before a pop; asserts: whether every assertion of the
\* last call held.
\* bheap_init(&uut, cmp, size, realloc);
BheapInit ==
    /\ RbUnused
    /\ ListUnused
    /\ kmpcall = Unused
    /\ pheap = Unused
    /\ \E size \in BhInitSizes :
         bheap = [vec |-> pvec_init(size, TRUE).v, op |-> "init", e |-> NULL,
                  rc |-> 0, before |-> 0, peeked |-> NULL, asserts |-> TRUE]
    /\ htable = Unused
    /\ blkalloc = Unused
    /\ vector = Unused

\* bheap_push(&uut, e), with realloc succeeding or not
BhPush ==
    /\ bheap.op # "free"
    /\ bheap_size(bheap.vec) < MaxBhSize
    /\ \E e \in BhVals, ok \in BOOLEAN :
         LET r == bheap_push(bheap.vec, e, ok)
         IN  bheap' = [vec |-> r.v, op |-> "push", e |-> e, rc |-> r.rc,
                       before |-> bheap_size(bheap.vec), peeked |-> NULL,
                       asserts |-> r.asserts]
    /\ UNCHANGED <<rbVars, listVars, pheap, htable, blkalloc, vector, kmpcall>>

\* peek = bheap_peek(&uut); pop = bheap_pop(&uut);
BhPop ==
    /\ bheap.op # "free"
    /\ LET r == bheap_pop(bheap.vec)
       IN  bheap' = [vec |-> r.v, op |-> "pop", e |-> r.ret, rc |-> 0,
                     before |-> bheap_size(bheap.vec),
                     peeked |-> bheap_peek(bheap.vec),
                     asserts |-> r.asserts]
    /\ UNCHANGED <<rbVars, listVars, pheap, htable, blkalloc, vector, kmpcall>>

\* bheap_free(&uut): vec_free(&bh->vec).  size and, when realloc returns
\* NULL, space stay as they were.  The tests make no call on the heap
\* afterwards.
BhFree ==
    /\ bheap.op # "free"
    /\ \E ok \in BOOLEAN :
         bheap' = [vec |-> pvec_free(bheap.vec, ok), op |-> "free",
                   e |-> NULL, rc |-> 0,
                   before |-> bheap_size(bheap.vec), peeked |-> NULL,
                   asserts |-> TRUE]
    /\ UNCHANGED <<rbVars, listVars, pheap, htable, blkalloc, vector, kmpcall>>

NextBheap == BhPush \/ BhPop \/ BhFree

SpecBheap == BheapInit /\ [][NextBheap]_vars

\* ----- properties of the binary heap ----------------------------------------
\* C23: bheap_pop on a non-empty heap removes exactly one element, whatever
\* values were pushed: bheap_size decreases by exactly one and the element
\* returned is the one bheap_peek returned.
C23_PopRemovesOne ==
    (bheap.op = "pop" /\ bheap.before > 0) =>
        /\ bheap_size(bheap.vec) = bheap.before - 1
        /\ bheap.e = bheap.peeked

\* bheap_pop removes exactly one element whenever the tail of the vector is
\* not the NULL pointer.
PopRemovesOneUnlessNullTail ==
    [][(bheap'.op = "pop" /\ bheap_size(bheap.vec) > 0
        /\ pvec_tail(bheap.vec) # NULL) =>
          /\ bheap_size(bheap'.vec) = bheap_size(bheap.vec) - 1
          /\ bheap'.e = bheap_peek(bheap.vec)]_vars

\* C24: after every bheap_push and bheap_pop, in any sequence, no element
\* compares greater than either of its children in the backing vector, the
\* assertions of the functions hold, and bheap_peek returns an element that
\* no stored element compares less than.
C24_HeapProperty ==
    LET v == bheap.vec
    IN  bheap.op # "free" =>
        /\ \A i \in 1..(pvec_size(v) - 1) :
             bheap_cmp(pvec_get(v, _parent(i)), pvec_get(v, i)) <= 0
        /\ bheap.asserts
        /\ \A i \in 0..(pvec_size(v) - 1) :
             bheap_cmp(bheap_peek(v), pvec_get(v, i)) <= 0

\* A pop has sifted the old tail down past the second level, after pushes
\* that made the vector grow.
C24_Witness ==
    /\ bheap.op = "pop"
    /\ bheap_size(bheap.vec) = MaxBhSize - 1
    /\ bheap_space(bheap.vec) = MaxBhSize
    /\ pvec_get(bheap.vec, 0) < pvec_get(bheap.vec, MaxBhSize - 2)
    /\ bheap.e < pvec_get(bheap.vec, 0)

\* ===== hash table (htable.c) ================================================
\* A struct hash_elem is identified by the address of its list_elem le, an
\* integer 1..MaxHtElems.  The caller owns two arrays of MaxHtBuckets struct
\* list each; bucket i of array a is the struct list Bucket(a, i).
\* htable.mem holds the prev and next fields of all of them.
HtElems == 1..MaxHtElems

HtKeys == 0..MaxHtKey

HtArrays == {1, 2}

\* buckets + i
Bucket(a, i) == (a - 1) * MaxHtBuckets + i + 1

HtAddrs == HtElems \cup {Sentinal(l) : l \in 1..(2 * MaxHtBuckets)}

\* The hasher and the comparator of the caller: the key modulo the number of
\* buckets, and the difference of the keys.
ht_hash(h, e, numbuckets) == h.key[e] % numbuckets

ht_cmp(h, a, b) == h.key[a] - h.key[b]

\* for (n = 0, e = list_begin(l); e != list_end(l); e = list_next(e)) n++;
list_size(m, l) ==
    Len(Iterate(m, list_begin(m, l), list_end(l), MaxHtElems + 1))

RECURSIVE InitBuckets(_, _, _, _)
InitBuckets(m, a, i, num) ==
    IF i = num THEN m
    ELSE InitBuckets(list_init(m, Bucket(a, i)), a, i + 1, num)

\* ht->buckets = buckets; ht->len = num; list_init(buckets + i) for each i
ht_init(h, buckets, num) ==
    [h EXCEPT !.buckets = buckets, !.len = num,
              !.mem = InitBuckets(h.mem, buckets, 0, num)]

\* The first element of the chain from le that compares equal to key.
RECURSIVE GetFrom(_, _, _, _)
GetFrom(h, le, end, k) ==
    IF le = end THEN NULL
    ELSE IF ht_cmp(h, le, k) = 0 THEN le
    ELSE GetFrom(h, list_next(h.mem, le), end, k)

ht_get(h, k) ==
    LET bucket == Bucket(h.buckets, ht_hash(h, k, h.len))
    IN  GetFrom(h, list_begin(h.mem, bucket), list_end(bucket), k)

\* list_pushfront(&ht->buckets[hval], &he->le);
ht_insert(h, he) ==
    [h EXCEPT !.mem = list_pushfront(h.mem,
                          Bucket(h.buckets, ht_hash(h, he, h.len)), he)]

\* (void)list_remove(&he->le);
ht_remove(h, he) == [h EXCEPT !.mem = list_remove(h.mem, he).m]

RECURSIVE SizeFrom(_, _)
SizeFrom(h, i) ==
    IF i = h.len THEN 0
    ELSE list_size(h.mem, Bucket(h.buckets, i)) + SizeFrom(h, i + 1)

ht_size(h) == SizeFrom(h, 0)

ht_space(h) == h.len

ht_isempty(h) ==
    \A i \in 0..(h.len - 1) : list_isempty(h.mem, Bucket(h.buckets, i))

\* The two loops of ht_rehash, from bucket i of the old array and iterator
\* le.  The iterator is advanced with list_next after the element it points
\* at has been moved.  When it points at something that is not a hash_elem,
\* the hasher reads storage that holds no key: pc is "undefined".
RECURSIVE RehashFrom(_, _, _, _, _)
RehashFrom(h, old_buckets, old_num, i, le) ==
    IF i = old_num THEN [h |-> h, pc |-> "done"]
    ELSE IF le = list_end(Bucket(old_buckets, i))
    THEN RehashFrom(h, old_buckets, old_num, i + 1,
                    IF i + 1 < old_num
                    THEN list_begin(h.mem, Bucket(old_buckets, i + 1))
                    ELSE NULL)
    ELSE IF le \notin HtElems THEN [h |-> h, pc |-> "undefined"]
    ELSE LET h1 == ht_insert(ht_remove(h, le), le)
         IN  RehashFrom(h1, old_buckets, old_num, i, list_next(h1.mem, le))

\* The result is the table after the call, the array returned and how the
\* call ended.
ht_rehash(h, buckets, num) ==
    LET old_buckets == h.buckets
        old_num == h.len
        h0 == ht_init(h, buckets, num)
        r == RehashFrom(h0, old_buckets, old_num, 0,
                        list_begin(h0.mem, Bucket(old_buckets, 0)))
    IN  [h |-> r.h, ret |-> old_buckets, pc |-> r.pc]

\* ----- the callers of htable.c ----------------------------------------------
\* key[e]: the key in the container of element e; used: how many elements
\* the caller has inserted so far; has: those it has not removed; op, e, pc: the last call, what it
\* returned and how it ended; size: ht_size before the last call.
NoHtable ==
    [mem |-> [prev |-> [a \in HtAddrs |-> NULL],
              next |-> [a \in HtAddrs |-> NULL]],
     buckets |-> 0, len |-> 0,
     key |-> [e \in HtElems |-> 0],
     used |-> 0,
     has |-> {}, op |-> "init", e |-> NULL, pc |-> "done", size |-> 0]

\* ht_init(&ht, buckets, num, hash, cmp);
HtableInit ==
    /\ RbUnused
    /\ ListUnused
    /\ kmpcall = Unused
    /\ pheap = Unused
    /\ bheap = Unused
    /\ \E num \in 1..MaxHtBuckets : htable = ht_init(NoHtable, 1, num)
    /\ blkalloc = Unused
    /\ vector = Unused

\* ht_insert(&ht, &e->he) of a new element, with a key no element of the
\* table has
HtInsert ==
    /\ htable.pc = "done"
    /\ htable.used < MaxHtElems
    /\ \E k \in HtKeys :
         LET e == htable.used + 1
             h0 == [htable EXCEPT !.key[e] = k]
         IN  /\ ht_get(h0, e) = NULL
             /\ htable' = [ht_insert(h0, e) EXCEPT
                             !.used = e,
                             !.has = @ \cup {e}, !.op = "insert", !.e = e,
                             !.size = ht_size(htable)]
    /\ UNCHANGED <<rbVars, listVars, pheap, bheap, blkalloc, vector, kmpcall>>

\* ht_remove(&e->he) of an element of the table
HtRemove ==
    /\ htable.pc = "done"
    /\ \E e \in htable.has :
         htable' = [ht_remove(htable, e) EXCEPT
                      !.has = @ \ {e}, !.op = "remove", !.e = e,
                      !.size = ht_size(htable)]
    /\ UNCHANGED <<rbVars, listVars, pheap, bheap, blkalloc, vector, kmpcall>>

\* old = ht_rehash(&ht, other, num): the caller hands over its other array
HtRehash ==
    /\ htable.pc = "done"
    /\ \E num \in 1..MaxHtBuckets :
         LET r == ht_rehash(htable, 3 - htable.buckets, num)
         IN  htable' = [r.h EXCEPT !.op = "rehash", !.e = r.ret,
                                   !.pc = r.pc, !.size = ht_size(htable)]
    /\ UNCHANGED <<rbVars, listVars, pheap, bheap, blkalloc, vector, kmpcall>>

NextHtable == HtInsert \/ HtRemove \/ HtRehash

SpecHtable == HtableInit /\ [][NextHtable]_vars

\* ----- properties of the hash table -----------------------------------------
\* C25: ht_rehash(ht, buckets, num) moves every element into the new array:
\* the call returns, ht_size is unchanged, ht_get finds every element that
\* was stored, ht_space is num, and the array returned is the old one, which
\* the table and its elements no longer reference.
C25_RehashMovesAll ==
    htable.op = "rehash" =>
        /\ htable.pc = "done"
        /\ ht_size(htable) = htable.size
        /\ \A e \in htable.has : ht_get(htable, e) = e
        /\ htable.e # htable.buckets
        /\ \A e \in htable.has :
             \A i \in 0..(MaxHtBuckets - 1) :
                 /\ htable.mem.next[e] # Sentinal(Bucket(htable.e, i))
                 /\ htable.mem.prev[e] # Sentinal(Bucket(htable.e, i))

\* ht_rehash of a table that holds no element returns with the new array in
\* place; ht_rehash of a table that holds an element never gets that far.
RehashOnlyWhenEmpty ==
    htable.op = "rehash" =>
        /\ htable.pc = "done" <=> htable.has = {}
        /\ htable.pc = "done" =>
             /\ ht_size(htable) = 0
             /\ htable.e # htable.buckets

\* The caller's record agrees with the table: every element inserted is
\* found, and ht_size counts them.
HtHasIsContents ==
    htable.pc = "done" =>
        /\ \A e \in htable.has : ht_get(htable, e) = e
        /\ ht_size(htable) = Cardinality(htable.has)

\* ===== block allocator (blkalloc.c) =========================================
\* Addresses and sizes are in bytes.  The k-th pool the underlying allocator
\* returns starts at PoolBase(k); its blocks start sizeof(struct blkpool)
\* bytes further.  blkalloc.word[x] is the uintptr_t stored at address x.
\* sizeof(uintptr_t)
SIZEOF_UINTPTR == 8

\* sizeof(struct blkpool): the list_elem, two pointers
SIZEOF_BLKPOOL == 16

\* INT_MAX.  UINT_MAX is 2 * INT_MAX + 1 and does not fit the integers of
\* the model checker, so the one expression that uses it is evaluated in two
\* halves, see UQuot.
INT_MAX == 2147483647

\* (UINT_MAX - sizeof(struct blkpool)) / d, for 2 <= d < 2^30.
\* UINT_MAX - 16 = 2 * (INT_MAX - 8) + 1.
UQuot(d) ==
    LET half == INT_MAX - (SIZEOF_BLKPOOL \div 2)
    IN  2 * (half \div d) + ((2 * (half % d) + 1) \div d)

\* (UINT_MAX - sizeof(struct blkpool)) / pool_size < blk_size, for
\* pool_size >= 1; with pool_size 1 the quotient is above every blk_size
\* of the model.
PoolTooBig(blk_size, pool_size) ==
    IF pool_size = 1 THEN FALSE ELSE UQuot(pool_size) < blk_size

\* The most pools a run of the model allocates.
MaxPools == MaxBlkCalls

PoolStride == SIZEOF_BLKPOOL + (MaxPoolSize + 1) * MaxBlkWords * SIZEOF_UINTPTR

\* What the k-th successful call of a->alloc returns.
PoolBase(k) == k * PoolStride

\* &p->blks[0]
Blks(p) == p + SIZEOF_BLKPOOL

WordAddrs ==
    {Blks(PoolBase(k)) + w * SIZEOF_UINTPTR :
        k \in 1..MaxPools, w \in 0..((MaxPoolSize + 1) * MaxBlkWords - 1)}

PoolAddrs == {PoolBase(k) : k \in 1..MaxPools} \cup {Sentinal(1)}

\* struct blkalloc before blkalloc_init: nothing in it is meaningful.
NoBlkalloc ==
    [init |-> FALSE,
     pools |-> [prev |-> [x \in PoolAddrs |-> NULL],
                next |-> [x \in PoolAddrs |-> NULL]],
     freeblks |-> NULL, pool_size |-> 0, blk_size |-> 0,
     word |-> [x \in WordAddrs |-> Junk],
     mallocs |-> 0, freed |-> <<>>]

\* Faulty variant: a pool that exactly fills an unsigned int is rejected.
blkalloc_init_offByOne(a, blk_size, pool_size) ==
    IF \/ blk_size < SIZEOF_UINTPTR
       \/ blk_size % SIZEOF_UINTPTR # 0
       \/ pool_size = 0
       \/ PoolTooBig(blk_size + 1, pool_size)
    THEN [a |-> a, rc |-> 0 - 1]
    ELSE [a |-> [a EXCEPT !.init = TRUE,
                          !.pools = list_init(a.pools, 1),
                          !.freeblks = NULL,
                          !.pool_size = pool_size,
                          !.blk_size = blk_size],
          rc |-> 0]

\* The result is the allocator after the call and the return code.
blkalloc_init(a, blk_size, pool_size) ==
    IF \/ blk_size < SIZEOF_UINTPTR
       \/ blk_size % SIZEOF_UINTPTR # 0
       \/ pool_size = 0
       \/ PoolTooBig(blk_size, pool_size)
    THEN [a |-> a, rc |-> 0 - 1]
    ELSE [a |-> [a EXCEPT !.init = TRUE,
                          !.pools = list_init(a.pools, 1),
                          !.freeblks = NULL,
                          !.pool_size = pool_size,
                          !.blk_size = blk_size],
          rc |-> 0]

\* for (i = 0; i < pool_size - 1; i++) { *blk = blk + inc; blk += inc; }
\* *blk = 0;   The result is the words of the heap after the loop.
RECURSIVE ChainBlocks(_, _, _, _, _)
ChainBlocks(word, blk, inc, i, pool_size) ==
    IF i < pool_size - 1
    THEN ChainBlocks([word EXCEPT ![blk] = blk + inc],
                     blk + inc, inc, i + 1, pool_size)
    ELSE [word EXCEPT ![blk] = 0]

\* Faulty variant: the blocks are chained one word apart.
_blkpool_init_oneWord(word, p, blk_size, pool_size) ==
    ChainBlocks(word, Blks(p), SIZEOF_UINTPTR, 0, pool_size)

\* inc = blk_size / sizeof(uintptr_t), counted in uintptr_t; here in bytes.
_blkpool_init(word, p, blk_size, pool_size) ==
    ChainBlocks(word, Blks(p),
                (blk_size \div SIZEOF_UINTPTR) * SIZEOF_UINTPTR,
                0, pool_size)

\* ok says whether a->alloc returned a pool.  The result is the allocator
\* after the call and the block returned.
blkalloc_alloc(a, ok) ==
    IF a.freeblks = NULL
    THEN IF ~ok
         THEN [a |-> [a EXCEPT !.mallocs = @ + 1], ret |-> NULL]
         ELSE LET newpool == PoolBase(a.mallocs + 1)
                  w == _blkpool_init(a.word, newpool, a.blk_size, a.pool_size)
                  first == Blks(newpool)
              IN  [a |-> [a EXCEPT
                            !.mallocs = @ + 1,
                            !.pools = list_pushback(a.pools, 1, newpool),
                            !.word = w,
                            !.freeblks = w[first]],
                   ret |-> first]
    ELSE [a |-> [a EXCEPT !.freeblks = a.word[a.freeblks]],
          ret |-> a.freeblks]

\* Faulty variant: the block is written but not put on the free list.
blkalloc_free_dropsBlock(a, blk) ==
    [a EXCEPT !.word[blk] = a.freeblks]

\* *blk = (uintptr_t)a->freeblks; a->freeblks = blk;
blkalloc_free(a, blk) ==
    [a EXCEPT !.word[blk] = a.freeblks, !.freeblks = blk]

\* while (!list_isempty(&a->pools)) { p = list_popback(&a->pools);
\* a->free(p); }   a.freed lists the pools handed to a->free, in order.
\* freeblks keeps its value.
RECURSIVE blkalloc_destroy(_)
blkalloc_destroy(a) ==
    IF list_isempty(a.pools, 1) THEN a
    ELSE LET r == list_popback(a.pools, 1)
         IN  blkalloc_destroy([a EXCEPT !.pools = r.m,
                                        !.freed = Append(@, r.e)])

\* ----- the callers of blkalloc.c --------------------------------------------
\* a: the struct blkalloc and the heap; live: the blocks blkalloc_alloc
\* returned and the caller has not freed, oldest first; calls: calls of
\* blkalloc_alloc and blkalloc_free so far; op, arg, rc: the last call, its
\* arguments and what it returned.
\* The block sizes and pool sizes the callers pass to blkalloc_init: every
\* small size, and the pool sizes around the largest pool an unsigned int
\* can hold for each block size.
InitBlkSizes == 0..(MaxBlkWords * SIZEOF_UINTPTR)

InitPoolSizes ==
    0..MaxPoolSize \cup
    {UQuot(b) + d : b \in {w * SIZEOF_UINTPTR : w \in 1..MaxBlkWords},
                    d \in {0 - 1, 0, 1}}

BlkallocInit ==
    /\ RbUnused
    /\ ListUnused
    /\ kmpcall = Unused
    /\ pheap = Unused
    /\ bheap = Unused
    /\ htable = Unused
    /\ blkalloc = [a |-> NoBlkalloc, live |-> <<>>, calls |-> 0,
                   op |-> "none", arg |-> <<>>, rc |-> 0]
    /\ vector = Unused

\* rc = blkalloc_init(&a, malloc, free, blk_size, pool_size);
BlkInit ==
    /\ ~blkalloc.a.init
    /\ \E blk_size \in InitBlkSizes, pool_size \in InitPoolSizes :
         LET r == blkalloc_init(blkalloc.a, blk_size, pool_size)
         IN  blkalloc' = [blkalloc EXCEPT
                            !.a = r.a, !.op = "init",
                            !.arg = <<blk_size, pool_size>>, !.rc = r.rc]
    /\ UNCHANGED <<rbVars, listVars, pheap, bheap, htable, vector, kmpcall>>

\* blk = blkalloc_alloc(&a), with a->alloc succeeding or not
BlkAlloc ==
    /\ blkalloc.a.init
    /\ blkalloc.op # "destroy"
    /\ blkalloc.a.pool_size <= MaxPoolSize
    /\ blkalloc.calls < MaxBlkCalls
    /\ \E ok \in BOOLEAN :
         LET r == blkalloc_alloc(blkalloc.a, ok)
         IN  blkalloc' = [blkalloc EXCEPT
                            !.a = r.a, !.op = "alloc", !.arg = <<>>,
                            !.rc = r.ret, !.calls = @ + 1,
                            !.live = IF r.ret = NULL THEN @
                                     ELSE Append(@, r.ret)]
    /\ UNCHANGED <<rbVars, listVars, pheap, bheap, htable, vector, kmpcall>>

\* blkalloc_free(&a, blk) of a block that is allocated and not freed
BlkFree ==
    /\ blkalloc.a.init
    /\ blkalloc.op # "destroy"
    /\ blkalloc.calls < MaxBlkCalls
    /\ \E i \in 1..Len(blkalloc.live) :
         blkalloc' = [blkalloc EXCEPT
                        !.a = blkalloc_free(blkalloc.a, blkalloc.live[i]),
                        !.op = "free", !.arg = <<blkalloc.live[i]>>,
                        !.rc = 0, !.calls = @ + 1,
                        !.live = Without(@, i)]
    /\ UNCHANGED <<rbVars, listVars, pheap, bheap, htable, vector, kmpcall>>

\* blkalloc_destroy(&a): every pool goes back to the underlying allocator,
\* and with it every block, held by the caller or not.  The tests make no
\* call on the allocator afterwards.
BlkDestroy ==
    /\ blkalloc.a.init
    /\ blkalloc.op # "destroy"
    /\ blkalloc' = [blkalloc EXCEPT
                      !.a = blkalloc_destroy(blkalloc.a),
                      !.op = "destroy", !.arg = <<>>, !.rc = 0,
                      !.live = <<>>]
    /\ UNCHANGED <<rbVars, listVars, pheap, bheap, htable, vector, kmpcall>>

NextBlkalloc == BlkInit \/ BlkAlloc \/ BlkFree \/ BlkDestroy

SpecBlkalloc == BlkallocInit /\ [][NextBlkalloc]_vars

\* ----- properties of the block allocator ------------------------------------
\* The block at x and the block at y, both of blk_size bytes, share no byte.
Disjoint(x, y, blk_size) == x + blk_size <= y \/ y + blk_size <= x

\* C26: the blocks blkalloc_alloc has returned and the caller has not yet
\* freed are pairwise distinct and share no byte, also when an allocation
\* had to get a new pool.
C26_BlocksDistinct ==
    \A i, j \in 1..Len(blkalloc.live) :
        i < j => Disjoint(blkalloc.live[i], blkalloc.live[j],
                          blkalloc.a.blk_size)

\* Three blocks of more than one word are held at once, out of two pools.
C26_Witness ==
    /\ Len(blkalloc.live) = 3
    /\ blkalloc.a.mallocs = 2
    /\ blkalloc.a.blk_size > SIZEOF_UINTPTR
    /\ blkalloc.op = "alloc"

\* C27: the underlying allocator is called only by a blkalloc_alloc that
\* finds the free list empty, never by blkalloc_init; a blkalloc_alloc
\* right after blkalloc_free(a, b) returns b and calls no allocator.
C27_LazyPools ==
    [][/\ blkalloc'.a.mallocs # blkalloc.a.mallocs
          => blkalloc'.op = "alloc" /\ blkalloc.a.freeblks = NULL
       /\ blkalloc'.op = "init" => blkalloc'.a.mallocs = 0
       /\ (blkalloc.op = "free" /\ blkalloc'.op = "alloc")
          => /\ blkalloc'.rc = blkalloc.arg[1]
             /\ blkalloc'.a.mallocs = blkalloc.a.mallocs]_vars

\* alloc, free, alloc on pools of one block: the third call returned a block
\* and the allocator was called once.
C27_Witness ==
    /\ blkalloc.op = "alloc"
    /\ blkalloc.a.pool_size = 1
    /\ blkalloc.calls = 3
    /\ blkalloc.a.mallocs = 1
    /\ blkalloc.rc # NULL

\* sizeof(struct blkpool) + pool_size * blk_size > UINT_MAX, for
\* blk_size >= 2: pool_size is above the largest count of blocks that fits.
WouldOverflow(blk_size, pool_size) == pool_size > UQuot(blk_size)

\* The arguments blkalloc_init is said to reject.
BadInitArgs(blk_size, pool_size) ==
    \/ blk_size < SIZEOF_UINTPTR
    \/ blk_size % SIZEOF_UINTPTR # 0
    \/ pool_size = 0
    \/ WouldOverflow(blk_size, pool_size)

\* C28: blkalloc_init returns -1 and leaves the allocator as it was when
\* the block size is below or not a multiple of the pointer size, the pool
\* size is 0 or the pool would not fit an unsigned int; otherwise it
\* returns 0 and the pool list and the free list are empty.
C28_InitRejects ==
    blkalloc.op = "init" =>
        IF BadInitArgs(blkalloc.arg[1], blkalloc.arg[2])
        THEN blkalloc.rc = 0 - 1 /\ blkalloc.a = NoBlkalloc
        ELSE /\ blkalloc.rc = 0
             /\ blkalloc.a.init
             /\ list_isempty(blkalloc.a.pools, 1)
             /\ blkalloc.a.freeblks = NULL
             /\ blkalloc.a.blk_size = blkalloc.arg[1]
             /\ blkalloc.a.pool_size = blkalloc.arg[2]

\* blkalloc_init has rejected the smallest pool that is too big for its
\* block size.
C28_Witness ==
    /\ blkalloc.op = "init"
    /\ blkalloc.rc = 0 - 1
    /\ blkalloc.arg[1] >= SIZEOF_UINTPTR
    /\ blkalloc.arg[1] % SIZEOF_UINTPTR = 0
    /\ blkalloc.arg[2] = UQuot(blkalloc.arg[1]) + 1

\* ===== vector of elements of a given size (vector.c, part_018) ==============
\* struct vector: data, the block the allocator last returned (NULL, 1 or 2);
\* len, elemsize, space, the fields of the same names.  Three fields follow
\* the heap: bytes, the size of the block at data; gone, whether that block
\* has been released, so that data dangles; and elems, the elements stored
\* at indices 0..len-1.  Sizes are in bytes.
DEF_VEC_LEN == 32

VecBlocks == {1, 2}

\* The allocator has returned NULL and has released the block it was passed:
\* what realloc of the C library does when the size asked for is 0.
Released == 0 - 1

\* What v->realloc(v->data, size) may answer: NULL (the block stays), a
\* block, the one passed (resized in place) or another (moved), or, to a
\* request of 0 bytes for a block, NULL with the block released.
Answers(v, size) ==
    {NULL} \cup VecBlocks
           \cup (IF size = 0 /\ v.data # NULL THEN {Released} ELSE {})

\* What vec_init can find in the elemsize field, which no function of
\* vector.c writes: any value, the size of the elements included.  Every
\* value up to the size of the largest buffer vec_init asks for is there
\* (3 gives a space of 21 to 32 elements of 2 bytes); the values above it,
\* which all give a space of 0, are stood for by BigElemSize.
UninitSizes == 0..(DEF_VEC_LEN * MaxElemSize) \cup {BigElemSize}

\* blk is what v->realloc(v->data, size) returns.  The result is the vector
\* after the call, the return code and whether the call came back:
\* size / v->elemsize divides by zero when the field holds 0, and a block
\* that has been released is no argument for the allocator.  An element
\* whose bytes the new block no longer holds is Junk, and so is one that
\* an earlier copy wrote past the old block when the allocator answers with
\* another block: only the old block is copied.
vec_resize(v, size, blk) ==
    IF v.gone
    THEN [v |-> v, rc |-> 0, pc |-> "undefined"]
    ELSE IF blk = Released
    THEN [v |-> [v EXCEPT !.gone = TRUE, !.bytes = 0],
          rc |-> 0 - 1, pc |-> "run"]
    ELSE IF blk = NULL
    THEN [v |-> v, rc |-> 0 - 1, pc |-> "run"]
    ELSE IF v.elemsize = 0
         THEN [v |-> [v EXCEPT !.data = blk, !.bytes = size],
               rc |-> 0, pc |-> "undefined"]
         ELSE [v |-> [v EXCEPT
                        !.data = blk, !.bytes = size,
                        !.space = size \div v.elemsize,
                        !.elems = [i \in 1..Len(v.elems) |->
                                     IF /\ i * v.elemsize <= size
                                        /\ \/ blk = v.data
                                           \/ i * v.elemsize <= v.bytes
                                     THEN v.elems[i] ELSE Junk]],
               rc |-> 0, pc |-> "run"]

\* u is the struct before the call: only its elemsize field, which vec_init
\* leaves as it finds it, matters.
vec_init(u, elemsize, len, blk) ==
    LET space == IF len = 0 THEN DEF_VEC_LEN ELSE len
        size == space * elemsize
    IN  vec_resize([u EXCEPT !.len = 0, !.space = space, !.data = NULL,
                             !.bytes = 0, !.gone = FALSE, !.elems = <<>>],
                   size, blk)

\* vec_resize(v, 0); the return code is dropped.
vec_free(v, blk) ==
    LET r == vec_resize(v, 0, blk)
    IN  [v |-> r.v, rc |-> 0, pc |-> r.pc]

vec_len(v) == v.len

vec_space(v) == v.space

vec_isempty(v) == vec_len(v) = 0

vec_shrink(v, blk) == vec_resize(v, vec_len(v) * v.elemsize, blk)

\* memcpy(v->data + i*v->elemsize, e, v->elemsize), e pointing to an object
\* of objsize bytes.  over: the copy writes past the block at data or reads
\* past the object.
vec_set(v, i, e, objsize) ==
    [v |-> [v EXCEPT !.elems = IF i + 1 <= Len(@)
                                THEN [@ EXCEPT ![i + 1] = e]
                                ELSE Append(@, e)],
     over |-> \/ v.gone
              \/ (i + 1) * v.elemsize > v.bytes
              \/ v.elemsize > objsize]

\* op(vec_get(v, i), i, scratch) for every i below len; new[i + 1] is what
\* op leaves in element i.  over: an element handed to op lies past the
\* block at data.
vec_map(v, new) ==
    [v |-> [v EXCEPT !.elems = new],
     over |-> v.len > 0 /\ (v.gone \/ v.len * v.elemsize > v.bytes)]

\* memcpy(tmp, vec_get(v, i)); vec_set(v, i, vec_get(v, j));
\* vec_set(v, j, tmp);
vec_swap(v, i, j) ==
    LET tmp == v.elems[i + 1]
        s1 == vec_set(v, i, v.elems[j + 1], v.elemsize)
        s2 == vec_set(s1.v, j, tmp, v.elemsize)
    IN  [v |-> s2.v, over |-> s1.over \/ s2.over]

_checkspace(v, blk) ==
    IF vec_len(v) = vec_space(v)
    THEN vec_resize(v, 2 * vec_len(v) * v.elemsize, blk)
    ELSE [v |-> v, rc |-> 0, pc |-> "run"]

\* Faulty variant: the element is added whatever _checkspace returned.
vec_push_ignoresRc(v, e, objsize, blk) ==
    LET c == _checkspace(v, blk)
        s == vec_set([c.v EXCEPT !.len = @ + 1], c.v.len, e, objsize)
    IN  IF c.pc = "undefined"
        THEN [v |-> c.v, rc |-> 0, pc |-> "undefined", over |-> FALSE]
        ELSE [v |-> s.v, rc |-> c.rc, pc |-> "run", over |-> s.over]

\* rc = _checkspace(v); if (rc == 0) { rc = v->len++; vec_set(v, rc, e); }
vec_push(v, e, objsize, blk) ==
    LET c == _checkspace(v, blk)
        s == vec_set([c.v EXCEPT !.len = @ + 1], c.v.len, e, objsize)
    IN  IF c.pc = "undefined"
        THEN [v |-> c.v, rc |-> 0, pc |-> "undefined", over |-> FALSE]
        ELSE IF c.rc = 0
             THEN [v |-> s.v, rc |-> c.v.len, pc |-> "run", over |-> s.over]
             ELSE [v |-> c.v, rc |-> c.rc, pc |-> "run", over |-> FALSE]

vec_pop(v) ==
    IF vec_isempty(v)
    THEN [v |-> v, rc |-> 0 - 1]
    ELSE [v |-> [v EXCEPT !.len = @ - 1,
                          !.elems = SubSeq(@, 1, Len(@) - 1)],
          rc |-> 0]

\* ----- the callers of vector.c ----------------------------------------------
\* v: the struct vector; objsize: the size of the caller's elements, as
\* passed to vec_init; op, rc: the last call and what it returned; blk: what
\* the allocator returned in it (NULL also when it was not called); refused: the allocator has returned NULL in
\* some call so far; over: some copy has gone past a buffer; pc: "undefined"
\* once a call has not come back.
VecVals == 0..MaxVecVal

VecRec(r, op, blk, objsize, refused, over) ==
    [v |-> r.v, objsize |-> objsize, op |-> op, rc |-> r.rc, blk |-> blk,
     refused |-> refused, over |-> over, pc |-> r.pc]

\* struct vector v; rc = vec_init(&v, elemsize, len, alloc);
VectorInit ==
    /\ RbUnused
    /\ ListUnused
    /\ kmpcall = Unused
    /\ pheap = Unused
    /\ bheap = Unused
    /\ htable = Unused
    /\ blkalloc = Unused
    /\ \E elemsize \in 1..MaxElemSize, len \in 0..(MaxVecLen - 1),
          g \in UninitSizes, blk \in {NULL} \cup VecBlocks :
         LET u == [data |-> NULL, len |-> 0, elemsize |-> g, space |-> 0,
                   bytes |-> 0, gone |-> FALSE, elems |-> <<>>]
         IN  vector = VecRec(vec_init(u, elemsize, len, blk), "init", blk,
                             elemsize, blk = NULL, FALSE)

\* A vector whose vec_init succeeded and that has not been freed.
VecUsable ==
    /\ vector.pc = "run"
    /\ vector.v.data # NULL
    /\ vector.op # "free"

\* The record after a call that has copied elements: when a copy goes past a
\* buffer the call may come back (back) or not.
Copied(r, op, back) ==
    VecRec([v |-> r.v, rc |-> 0, pc |-> IF back THEN "run" ELSE "undefined"],
           op, NULL, vector.objsize, vector.refused,
           vector.over \/ r.over)

\* rc = vec_push(&v, &e): when a copy goes past a buffer the call may come
\* back or not.
VecPush ==
    /\ VecUsable
    /\ vector.v.len < MaxVecLen
    /\ LET needed == vec_len(vector.v) = vec_space(vector.v)
       IN  \E e \in VecVals, back \in BOOLEAN,
              blk \in IF needed
                      THEN Answers(vector.v,
                                   2 * vec_len(vector.v) * vector.v.elemsize)
                      ELSE {NULL} :
             LET r == vec_push(vector.v, e, vector.objsize, blk)
             IN  /\ back \/ r.over
                 /\ vector' = VecRec([v |-> r.v, rc |-> r.rc,
                                      pc |-> IF back THEN r.pc
                                             ELSE "undefined"],
                                     "push", blk, vector.objsize,
                                     vector.refused
                                        \/ (needed /\ blk \notin VecBlocks),
                                     vector.over \/ r.over)
    /\ UNCHANGED <<rbVars, listVars, pheap, bheap, htable, blkalloc, kmpcall>>

\* rc = vec_pop(&v);
VecPop ==
    /\ VecUsable
    /\ LET r == vec_pop(vector.v)
       IN  vector' = VecRec([v |-> r.v, rc |-> r.rc, pc |-> "run"],
                            "pop", NULL, vector.objsize,
                            vector.refused, vector.over)
    /\ UNCHANGED <<rbVars, listVars, pheap, bheap, htable, blkalloc, kmpcall>>

\* rc = vec_shrink(&v);
VecShrink ==
    /\ VecUsable
    /\ \E blk \in Answers(vector.v, vec_len(vector.v) * vector.v.elemsize) :
         vector' = VecRec(vec_shrink(vector.v, blk), "shrink", blk,
                          vector.objsize,
                          vector.refused \/ blk \notin VecBlocks,
                          vector.over)
    /\ UNCHANGED <<rbVars, listVars, pheap, bheap, htable, blkalloc, kmpcall>>

\* rc = vec_resize(&v, size), size a whole number of the caller's elements
VecResize ==
    /\ VecUsable
    /\ \E n \in 0..MaxVecLen :
       \E blk \in Answers(vector.v, n * vector.objsize) :
         vector' = VecRec(vec_resize(vector.v, n * vector.objsize, blk),
                          "resize", blk, vector.objsize,
                          vector.refused \/ blk \notin VecBlocks,
                          vector.over)
    /\ UNCHANGED <<rbVars, listVars, pheap, bheap, htable, blkalloc, kmpcall>>

\* vec_set(&v, i, &e) with i < vec_len(&v)
VecSet ==
    /\ VecUsable
    /\ \E i \in 0..(vec_len(vector.v) - 1), e \in VecVals, back \in BOOLEAN :
         LET r == vec_set(vector.v, i, e, vector.objsize)
         IN  /\ back \/ r.over
             /\ vector' = Copied(r, "set", back)
    /\ UNCHANGED <<rbVars, listVars, pheap, bheap, htable, blkalloc, kmpcall>>

\* vec_swap(&v, i, j) with i, j < vec_len(&v)
VecSwap ==
    /\ VecUsable
    /\ \E i, j \in 0..(vec_len(vector.v) - 1), back \in BOOLEAN :
         LET r == vec_swap(vector.v, i, j)
         IN  /\ back \/ r.over
             /\ vector' = Copied(r, "swap", back)
    /\ UNCHANGED <<rbVars, listVars, pheap, bheap, htable, blkalloc, kmpcall>>

\* vec_map(&v, op, scratch) with an op that reads the element it is handed
\* or writes w to it
VecMap ==
    /\ VecUsable
    /\ \E writes \in BOOLEAN, w \in VecVals, back \in BOOLEAN :
         LET new == [i \in 1..vec_len(vector.v) |->
                       IF writes THEN w ELSE vector.v.elems[i]]
             r == vec_map(vector.v, new)
         IN  /\ back \/ r.over
             /\ vector' = Copied(r, "map", back)
    /\ UNCHANGED <<rbVars, listVars, pheap, bheap, htable, blkalloc, kmpcall>>

\* vec_free(&v); the vector is not used afterwards.
VecFree ==
    /\ VecUsable
    /\ \E blk \in Answers(vector.v, 0) :
         vector' = VecRec(vec_free(vector.v, blk), "free", blk,
                          vector.objsize,
                          vector.refused \/ blk \notin VecBlocks,
                          vector.over)
    /\ UNCHANGED <<rbVars, listVars, pheap, bheap, htable, blkalloc, kmpcall>>

NextVector ==
    \/ VecPush
    \/ VecPop
    \/ VecShrink
    \/ VecResize
    \/ VecSet
    \/ VecSwap
    \/ VecMap
    \/ VecFree

SpecVector == VectorInit /\ [][NextVector]_vars

\* The callers that only push, pop, shrink and free.
NextPushPop ==
    \/ VecPush
    \/ VecPop
    \/ VecShrink
    \/ VecFree

SpecPushPop == VectorInit /\ [][NextPushPop]_vars

\* The callers that leave the elements as they are: the calls that change
\* len, space or data.
NextSized ==
    \/ VecPush
    \/ VecPop
    \/ VecShrink
    \/ VecResize
    \/ VecFree

SpecSized == VectorInit /\ [][NextSized]_vars

\* ----- properties of the vector ---------------------------------------------
\* C29: with an allocator that has never refused, a vec_push that returned
\* an index leaves vec_len <= vec_space, and the index is that of the new
\* element.
C29_PushFits ==
    (/\ vector.op = "push"
     /\ vector.pc = "run"
     /\ vector.rc >= 0
     /\ ~vector.refused)
    => /\ vec_len(vector.v) <= vec_space(vector.v)
       /\ vector.rc = vec_len(vector.v) - 1

\* What does hold: a push fits when the vector had room for at least one
\* element before it, and the index returned is always the new element's.
PushFitsUnlessNoSpace ==
    [][(/\ vector'.op = "push"
        /\ vector'.pc = "run"
        /\ vector'.rc >= 0)
       => /\ vector'.rc = vec_len(vector'.v) - 1
          /\ vec_space(vector.v) > 0
             /\ vec_len(vector.v) <= vec_space(vector.v)
             => vec_len(vector'.v) <= vec_space(vector'.v)]_vars

\* C30: when vec_push needs a resize and the allocator refuses it, vec_push
\* returns -1 and the vector is as before: no element added, len, space
\* and data unchanged.
C30_FailedPushKeeps ==
    [][(/\ vector'.op = "push"
        /\ vector'.pc = "run"
        /\ vec_len(vector.v) = vec_space(vector.v)
        /\ vector'.blk \notin VecBlocks)
       => /\ vector'.rc = 0 - 1
          /\ vec_len(vector'.v) = vec_len(vector.v)
          /\ vec_space(vector'.v) = vec_space(vector.v)
          /\ vector'.v.data = vector.v.data
          /\ vector'.v.elemsize = vector.v.elemsize
          /\ vector'.v.elems = vector.v.elems]_vars

\* A full vector of two elements has been refused a third.
C30_Witness ==
    /\ vector.op = "push"
    /\ vector.pc = "run"
    /\ vector.blk = NULL
    /\ vec_len(vector.v) = 2
    /\ vec_space(vector.v) = 2
    /\ Len(vector.v.elems) = 2
    /\ vector.rc = 0 - 1

\* ===== Knuth-Morris-Pratt search (kmp.c) ====================================
\* A string is a sequence of characters: s[i] of the source is s[i + 1]
\* here, and so is table[i].
Chars == 0..MaxChar

Strings(lo, hi) == UNION {[1..n -> Chars] : n \in lo..hi}

\* The value a char holds after an assignment of x.
ToChar(x) == LET m == x % 256 IN IF m > 127 THEN m - 256 ELSE m

\* while (pos < len) of _compute_table.
RECURSIVE TableLoop(_, _, _, _, _)
TableLoop(k, table, len, pos, cnd) ==
    IF pos < len
    THEN IF k[pos] = k[cnd + 1]
         THEN TableLoop(k, [table EXCEPT ![pos + 1] = ToChar(cnd + 1)],
                        len, pos + 1, cnd + 1)
         ELSE IF cnd > 0
              THEN TableLoop(k, table, len, pos, table[cnd + 1])
              ELSE TableLoop(k, [table EXCEPT ![pos + 1] = 0],
                             len, pos + 1, cnd)
    ELSE table

\* nd: the build has NDEBUG.  The result is the table and how the call
\* ended: "abort" when assert(len > 2) fails; over when table[1] = 0 wrote
\* past a table of one char.
_compute_table(k, len, nd) ==
    IF ~nd /\ ~(len > 2)
    THEN [table |-> <<>>, pc |-> "abort", over |-> FALSE]
    ELSE LET t0 == [i \in 1..len |->
                       IF i = 1 THEN 0 - 1 ELSE IF i = 2 THEN 0 ELSE Junk]
         IN  [table |-> TableLoop(k, t0, len, 2, 0), pc |-> "run",
              over |-> len < 2]

\* One pass of the while loop of kmp, then what follows the loop.  c holds
\* the arguments and the locals; pc is "loop" at the loop test, "after"
\* behind the loop, "returned" at the end; broke records that the loop was
\* left by break.
kmp_step(c) ==
    IF c.pc = "loop"
    THEN IF c.match + c.cur < c.hlen
         THEN IF c.needle[c.cur + 1] = c.haystack[c.match + c.cur + 1]
              THEN IF c.cur = c.nlen - 1
                   THEN [c EXCEPT !.ret = c.match, !.broke = TRUE,
                                  !.pc = "after"]
                   ELSE [c EXCEPT !.cur = @ + 1]
              ELSE IF c.table[c.cur + 1] > 0 - 1
                   THEN [c EXCEPT !.match = c.match + c.cur
                                            - c.table[c.cur + 1],
                                  !.cur = c.table[c.cur + 1]]
                   ELSE [c EXCEPT !.match = @ + 1, !.cur = 0]
         ELSE [c EXCEPT !.pc = "after"]
    ELSE [c EXCEPT !.ret = c.hlen, !.pc = "returned"]

\* ----- the callers of kmp.c -------------------------------------------------
\* rc = kmp(needle, strlen(needle), haystack, strlen(haystack)), in either
\* build.
KmpInit ==
    /\ RbUnused
    /\ ListUnused
    /\ pheap = Unused
    /\ bheap = Unused
    /\ htable = Unused
    /\ blkalloc = Unused
    /\ vector = Unused
    /\ \E needle \in Strings(1, MaxNeedle), haystack \in Strings(0, MaxHay),
          nd \in BOOLEAN :
         kmpcall = [needle |-> needle, nlen |-> Len(needle),
                    haystack |-> haystack, hlen |-> Len(haystack),
                    nd |-> nd, pc |-> "call", table |-> <<>>,
                    match |-> 0, cur |-> 0, ret |-> Junk,
                    broke |-> FALSE, over |-> FALSE]

\* char table[nlen]; _compute_table(needle, table, nlen); match = 0;
\* cur = 0;  After a write past the table the call may go on or not.
KmpCall ==
    /\ kmpcall.pc = "call"
    /\ \E back \in BOOLEAN :
         LET t == _compute_table(kmpcall.needle, kmpcall.nlen, kmpcall.nd)
         IN  /\ back \/ t.over
             /\ kmpcall' = [kmpcall EXCEPT
                              !.table = t.table, !.over = t.over,
                              !.pc = IF t.pc = "abort" THEN "abort"
                                     ELSE IF back THEN "loop"
                                     ELSE "undefined"]
    /\ UNCHANGED <<rbVars, listVars, pheap, bheap, htable, blkalloc, vector>>

KmpLoop ==
    /\ kmpcall.pc = "loop"
    /\ kmpcall' = kmp_step(kmpcall)
    /\ UNCHANGED <<rbVars, listVars, pheap, bheap, htable, blkalloc, vector>>

\* ret = hlen; return ret;
KmpReturn ==
    /\ kmpcall.pc = "after"
    /\ kmpcall' = kmp_step(kmpcall)
    /\ UNCHANGED <<rbVars, listVars, pheap, bheap, htable, blkalloc, vector>>

NextKmp == KmpCall \/ KmpLoop \/ KmpReturn

SpecKmp == KmpInit /\ [][NextKmp]_vars

\* ----- properties of kmp ----------------------------------------------------
\* needle occurs in haystack at position i (counted from 0).
OccursAt(needle, haystack, i) ==
    /\ i + Len(needle) <= Len(haystack)
    /\ \A j \in 1..Len(needle) : haystack[i + j] = needle[j]

\* The position of the first occurrence, Len(haystack) when there is none.
FirstOccurrence(needle, haystack) ==
    LET at == {i \in 0..Len(haystack) : OccursAt(needle, haystack, i)}
    IN  IF at = {} THEN Len(haystack)
        ELSE CHOOSE i \in at : \A j \in at : i <= j

\* C31: kmp returns the position of the first occurrence of needle in
\* haystack, and hlen when there is none, for every nlen >= 1.
C31_KmpFinds ==
    kmpcall.pc = "returned"
    => kmpcall.ret = FirstOccurrence(kmpcall.needle, kmpcall.haystack)

\* What does hold: a call that returns has returned hlen, whatever the loop
\* found.
KmpReturnsHlen == kmpcall.pc = "returned" => kmpcall.ret = kmpcall.hlen

\* The loop itself is right: it is left by break exactly when needle
\* occurs, with match at the first occurrence.
KmpLoopFinds ==
    kmpcall.pc \in {"after", "returned"}
    => IF kmpcall.broke
       THEN kmpcall.match = FirstOccurrence(kmpcall.needle, kmpcall.haystack)
       ELSE FirstOccurrence(kmpcall.needle, kmpcall.haystack) = kmpcall.hlen

\* ===== rbtree_insert on deeper trees ========================================
\* The caller builds a tree by whole calls of rbtree_insert and then makes
\* one more call, of any key between or beside or equal to those in the tree,
\* which is followed step by step.  ret.scratch holds the tree as it was before that
\* call.
DeepNodes == 1..MaxDeepNodes

\* rbtree_init(&tree, cmp) has run; the nodes are those of a larger array.
DeepInit ==
    /\ ndebug \in BOOLEAN
    /\ tree = [root |-> NULL,
               color |-> [n \in DeepNodes |-> RB_BLACK],
               left |-> [n \in DeepNodes |-> NULL],
               right |-> [n \in DeepNodes |-> NULL]]
    /\ key = [n \in DeepNodes |-> 0]
    /\ used = 0
    /\ ins = IdleFrame
    /\ ret = NoRet
    /\ srch = IdleSearch
    /\ trav = IdleTraverse
    /\ ListUnused
    /\ ContUnused

\* The first key; the keys are unsigned and stay above zero.
DeepStart == 2 * MaxDeepNodes

Lowest == CHOOSE x \in {key[n] : n \in 1..used} :
              \A n \in 1..used : x <= key[n]

Highest == CHOOSE x \in {key[n] : n \in 1..used} :
               \A n \in 1..used : x >= key[n]

\* The keys the caller may give the next node while it builds the tree: the
\* second key is two below or two above the first, and from then on the
\* caller goes on in that direction, each key either two beyond the extreme
\* key so far or one back from it (which lands between, or on, keys that are
\* in the tree).
GrowKeys ==
    IF used = 0 THEN {DeepStart}
    ELSE IF used = 1 THEN {Lowest - 2, Highest + 2}
    ELSE IF key[2] < key[1] THEN {Lowest - 2, Lowest + 1}
    ELSE {Highest + 2, Highest - 1}

\* nodes[used].n = kv; rbtree_insert(&tree, &nodes[used].rbn);
DeepGrow ==
    /\ Quiet
    /\ ret.op \in {"none", "insert"}
    /\ used < MaxDeepNodes - 1
    /\ \E kv \in GrowKeys, g \in Uninit(used + 1) : DoInsert(kv, g)

\* The entry of the call that is followed step by step.
DeepCall ==
    /\ Quiet
    /\ ret.op \in {"none", "insert"}
    /\ \E kv \in IF used = 0 THEN {DeepStart} ELSE (Lowest - 1)..(Highest + 1),
          g \in Uninit(used + 1) :
         LET node == used + 1
             m == InsertEntry(WithFields(tree, node, g), node, ndebug)
         IN  /\ key' = [key EXCEPT ![node] = kv]
             /\ used' = node
             /\ tree' = m.t
             /\ ins' = m.f
             /\ ret' = [NoRet EXCEPT !.op = "call", !.key = kv,
                                     !.node = node, !.scratch = <<tree>>]
    /\ UNCHANGED <<contVars, listVars, ndebug, srch, trav>>

DeepReturn ==
    /\ ins.pc = "done"
    /\ ins' = IdleFrame
    /\ ret' = [ret EXCEPT !.op = "returned"]
    /\ UNCHANGED <<contVars, listVars, ndebug, tree, key, used, srch, trav>>

NextDeep ==
    \/ DeepGrow
    \/ DeepCall
    \/ InsertDescend
    \/ InsertFixup
    \/ InsertInner
    \/ InsertOuter
    \/ DeepReturn

SpecDeep == DeepInit /\ [][NextDeep]_vars

\* ----- the fixup loop of rbtree_insert ------------------------------------
\* The node the iteration about to start works on: the new node in the first
\* iteration, the grandparent of the iteration before in a later one.
Working == IF ins.backtrack = 1 THEN ins.gparent ELSE ret.node

\* The node under the root that has n as a child, NULL for the root.
ParentOf(t, n) ==
    IF n # NULL /\ \E p \in Reach(t, t.root) : n \in {t.left[p], t.right[p]}
    THEN CHOOSE p \in Reach(t, t.root) : n \in {t.left[p], t.right[p]}
    ELSE NULL

\* The other child of n's parent.
SiblingOf(t, n) ==
    LET p == ParentOf(t, n)
    IN  IF t.left[p] = n THEN t.right[p] ELSE t.left[p]

AtLoopTop == ret.op = "call" /\ ins.pc = "fixup"

\* C32: at the top of every iteration of the fixup loop, the first one and
\* each one that follows a current -= 2, backtrace[current] is the slot that
\* holds the working node, backtrace[current-1] the slot that holds its
\* parent, backtrace[current-2] the slot that holds its grandparent, and
\* uncles[current] is the grandparent's other child (NULL when there is none).
C32_PathValid ==
    AtLoopTop =>
        LET w == Working
            p == ParentOf(tree, w)
            g == ParentOf(tree, p)
        IN  /\ Deref(tree, ins.backtrace[ins.current]) = w
            /\ w \in Reach(tree, tree.root)
            /\ (ins.current = 0) = (p = NULL)
            /\ p # NULL =>
                 /\ Deref(tree, ins.backtrace[ins.current - 1]) = p
                 /\ ins.backtrace[ins.current] \in {LeftSlot(p), RightSlot(p)}
                 /\ (ins.current = 1) = (g = NULL)
            /\ (p # NULL /\ g # NULL) =>
                 /\ Deref(tree, ins.backtrace[ins.current - 2]) = g
                 /\ ins.backtrace[ins.current - 1]
                        \in {LeftSlot(g), RightSlot(g)}
                 /\ ins.uncles[ins.current] = SiblingOf(tree, p)

\* The loop has gone two levels up and the path is used again: the working
\* node's parent is red once more, with an uncle on either side of it recorded.
C32_Witness ==
    /\ AtLoopTop
    /\ ins.backtrack = 1
    /\ ins.current >= 2
    /\ ParentOf(tree, Working) # NULL
    /\ tree.color[ParentOf(tree, Working)] = RB_RED
    /\ ins.uncles[ins.current] # NULL

\* The working node has a red parent and a red uncle.
RedParentRedUncle ==
    LET p == ParentOf(tree, Working)
    IN  /\ p # NULL
        /\ tree.color[p] = RB_RED
        /\ ParentOf(tree, p) # NULL
        /\ SiblingOf(tree, p) # NULL
        /\ tree.color[SiblingOf(tree, p)] = RB_RED

\* C33: an iteration of the fixup loop that finds parent and uncle red paints
\* the two black and the grandparent red, rotates nothing (no link changes)
\* and is followed by another iteration two levels up with the grandparent as
\* the working node; an iteration that finds anything else is the last one.
C33_RecolorStep ==
    [][AtLoopTop =>
         LET p == ParentOf(tree, Working)
             g == ParentOf(tree, p)
             u == SiblingOf(tree, p)
         IN  IF RedParentRedUncle
             THEN /\ tree'.color = [tree.color EXCEPT ![p] = RB_BLACK,
                                                      ![u] = RB_BLACK,
                                                      ![g] = RB_RED]
                  /\ tree'.root = tree.root
                  /\ tree'.left = tree.left
                  /\ tree'.right = tree.right
                  /\ ins'.pc = "fixup"
                  /\ ins'.current = ins.current - 2
                  /\ Working' = g
                  /\ Deref(tree', ins'.backtrace[ins'.current]) = g
             ELSE ins'.pc # "fixup"]_vars

\* The loop has recolored once and is at the top of the next iteration.
C33_Witness ==
    /\ AtLoopTop
    /\ ins.backtrack = 1
    /\ tree.color[ins.gparent] = RB_RED
    /\ ins.uncle # NULL
    /\ tree.color[ins.parent] = RB_BLACK
    /\ tree.color[ins.uncle] = RB_BLACK
    /\ ret.scratch[1].color[ins.uncle] = RB_RED

\* The tree as it was when the call that is being followed was made.
Before == ret.scratch[1]

\* Every link of the tree: the root and each node's two children.
Links(t) == <<t.root, t.left, t.right>>

\* C34: once an iteration has found a red parent with a black or absent
\* uncle, the function goes through the inner rotation (if the working node
\* is an inner child), the two recolors and the rotation at the grandparent's
\* slot, and returns: no further iteration, no other step that changes a
\* link, hence at most two rotations in the call.  On return the subtree in
\* the slot the grandparent was in has a black root and as many black nodes
\* on every path down as it had before the insertion, and nothing outside
\* that subtree except the slot was written.
C34_RotateAndReturn ==
    [][(ret.op = "call" /\ ins.pc \in {"descend", "fixup", "inner", "outer"}) =>
         LET slot == ins.backtrace[ins.current - 2]
             g == ParentOf(tree, ParentOf(tree, ins.node))
         IN  /\ ins.pc = "descend" =>
                  \/ Links(tree') = Links(tree)
                  \/ /\ ins'.pc = "fixup"
                     /\ Deref(tree, ins.backtrace[ins.current]) = NULL
                     /\ tree' = Store(tree, ins.backtrace[ins.current],
                                      ret.node)
             /\ ins.pc = "fixup" => Links(tree') = Links(tree)
             /\ ins.pc = "inner" =>
                  /\ ins'.pc = "outer"
                  /\ ins.gparent = g
                  /\ Deref(tree', ins.backtrace[ins.current - 2]) = g
                  /\ tree'.color = tree.color
             /\ ins.pc = "outer" =>
                  /\ ins'.pc = "done"
                  /\ Deref(Before, slot) = ins.gparent
                  /\ Deref(tree', slot) # NULL
                  /\ tree'.color[Deref(tree', slot)] = RB_BLACK
                  /\ Cardinality(BlackCounts(tree', Deref(tree', slot))) = 1
                  /\ BlackCounts(tree', Deref(tree', slot))
                        = BlackCounts(Before, Deref(Before, slot))
                  /\ Reach(tree', Deref(tree', slot))
                        = Reach(tree, ins.gparent)
                  /\ \A n \in DeepNodes \ Reach(tree, ins.gparent) :
                        /\ tree'.color[n] = tree.color[n]
                        /\ LeftSlot(n) # slot => tree'.left[n] = tree.left[n]
                        /\ RightSlot(n) # slot
                              => tree'.right[n] = tree.right[n]
                  /\ slot # RootSlot => tree'.root = tree.root]_vars

\* The call has returned after two recolor-free rotations that followed at
\* least one recolor step: the working node was an inner child, is now at
\* the grandparent's former slot and is not the new node.
C34_Witness ==
    /\ ret.op = "call"
    /\ ins.pc = "done"
    /\ ins.current >= 2
    /\ ins.parent = ins.node
    /\ ins.node # ret.node
    /\ Deref(tree, ins.backtrace[ins.current - 2]) = ins.node
    /\ tree.color[ins.node] = RB_BLACK
    /\ ins.gparent \in {tree.left[ins.node], tree.right[ins.node]}

\* Tree t with node n as a red leaf in slot s.
WithLeaf(t, s, n) ==
    [Store(t, s, n) EXCEPT !.color[n] = RB_RED,
                           !.left[n] = NULL,
                           !.right[n] = NULL]

\* C35: when the first iteration of the fixup loop finds the new leaf under a
\* black parent, the call returns at once, and the tree is the tree of before
\* the call but for one child slot of that parent, which was empty and now
\* holds the new node, and the new node's own fields (red, no children): no
\* other color and no other link differs.
C35_BlackParent ==
    [][(AtLoopTop /\ ins.backtrack = 0
        /\ ParentOf(tree, ret.node) # NULL
        /\ tree.color[ParentOf(tree, ret.node)] = RB_BLACK) =>
         LET p == ParentOf(tree, ret.node)
         IN  /\ ins'.pc = "done"
             /\ \E s \in {LeftSlot(p), RightSlot(p)} :
                   /\ Deref(Before, s) = NULL
                   /\ tree' = WithLeaf(Before, s, ret.node)]_vars

\* The call has returned from the first iteration: the new node is a red leaf
\* two or more levels down, under a black parent.
C35_Witness ==
    /\ ret.op = "call"
    /\ ins.pc = "done"
    /\ ins.node = ret.node
    /\ ins.current >= 2
    /\ ins.parent = ParentOf(tree, ret.node)
    /\ tree.color[ins.parent] = RB_BLACK
    /\ tree.color[ret.node] = RB_RED
    /\ Before.color[ins.parent] = RB_BLACK

\* C37: in a call on a tree built by rbtree_insert, of a node that is not in
\* the tree, no assertion of rbtree_insert fails and no pointer that one of
\* them guards is NULL when it is used: neither build ends a call at a failed
\* assertion, and the nodes a recolor step has written (parent, grandparent,
\* uncle) were all present.
C37_NoAssertFails ==
    /\ ins.pc \notin {"abort", "undefined"}
    /\ (ins.pc = "fixup" /\ ins.backtrack = 1) =>
          /\ ins.parent # NULL
          /\ ins.gparent # NULL
          /\ ins.uncle # NULL
    /\ ins.pc \in {"inner", "outer"} =>
          /\ ins.current >= 2
          /\ ins.parent # NULL
          /\ ins.gparent # NULL

\* A call of the debug build has gone through a recolor step and then
\* through the final else-branch (the parent was the grandparent's left
\* child, rotated right) and both RBCHECKs.
C37_Witness ==
    /\ ret.op = "call"
    /\ ~ndebug
    /\ ins.pc = "done"
    /\ ins.rbchecks = 2
    /\ ins.node # ret.node
    /\ ins.current >= 2
    /\ ins.gparent = tree.right[ins.parent]
    /\ Deref(tree, ins.backtrace[ins.current - 2]) = ins.parent

\* ===== the rotations on their own ==========================================
\* _rotate_left(n) and _rotate_right(n) applied to any slot of a tree linked
\* by hand whose node has the child the rotation asserts.  ret.scratch holds
\* the tree as it was before the rotation and the slot.
SlotsOf(t) ==
    {RootSlot} \cup {LeftSlot(n) : n \in Reach(t, t.root)}
               \cup {RightSlot(n) : n \in Reach(t, t.root)}

RotateLeftAt ==
    /\ Quiet
    /\ \E slot \in SlotsOf(tree) :
         /\ Deref(tree, slot) # NULL
         /\ tree.right[Deref(tree, slot)] # NULL
         /\ tree' = _rotate_left(tree, slot)
         /\ ret' = [NoRet EXCEPT !.op = "rotate_left",
                                 !.scratch = <<tree, slot>>]
    /\ UNCHANGED <<contVars, listVars, ndebug, key, used, ins, srch, trav>>

RotateRightAt ==
    /\ Quiet
    /\ \E slot \in SlotsOf(tree) :
         /\ Deref(tree, slot) # NULL
         /\ tree.left[Deref(tree, slot)] # NULL
         /\ tree' = _rotate_right(tree, slot)
         /\ ret' = [NoRet EXCEPT !.op = "rotate_right",
                                 !.scratch = <<tree, slot>>]
    /\ UNCHANGED <<contVars, listVars, ndebug, key, used, ins, srch, trav>>

NextRotate == LinkLeaf \/ RotateLeftAt \/ RotateRightAt

SpecRotate == Init /\ [][NextRotate]_vars

Rotated == ret.op \in {"rotate_left", "rotate_right"}

\* The tree is what a rotation may make of the tree saved before it: the
\* nodes below the slot are in the same left-to-right order as before; the
\* child of the node that was in the slot has moved up into it; the only
\* links that may differ are the slot, the child pointer of the node that
\* moved down on the side the other came from, and the opposite child pointer
\* of the node that moved up; no color differs.
RotationKeeps ==
    LET pre == ret.scratch[1]
        slot == ret.scratch[2]
        down == Deref(pre, slot)
        up == Deref(tree, slot)
        isLeft == ret.op = "rotate_left"
        written == IF isLeft
                   THEN {slot, RightSlot(down), LeftSlot(up)}
                   ELSE {slot, LeftSlot(down), RightSlot(up)}
    IN  /\ up = IF isLeft THEN pre.right[down] ELSE pre.left[down]
        /\ down = IF isLeft THEN tree.left[up] ELSE tree.right[up]
        /\ InOrder(tree, up) = InOrder(pre, down)
        /\ InOrder(tree, tree.root) = InOrder(pre, pre.root)
        /\ tree.color = pre.color
        /\ \A s \in ({RootSlot} \cup {LeftSlot(n) : n \in Nodes}
                                \cup {RightSlot(n) : n \in Nodes})
                    \ written :
               Deref(tree, s) = Deref(pre, s)

\* C36: every _rotate_left(slot) and _rotate_right(slot) keeps the in-order
\* sequence of the nodes below the slot, writes at most the three links and
\* no color; and a right rotation that follows a left rotation at the same
\* slot gives back the tree the left rotation started from.
C36_Rotations ==
    [][/\ Rotated' => RotationKeeps'
       /\ (ret.op = "rotate_left" /\ ret'.op = "rotate_right"
           /\ ret'.scratch[2] = ret.scratch[2]) =>
             tree' = ret.scratch[1]]_vars

\* A left rotation below the root whose moving-up node had a left subtree to
\* hand over, undone by a right rotation at the same slot.
C36_Witness ==
    /\ ret.op = "rotate_right"
    /\ ret.scratch[2] # RootSlot
    /\ LET slot == ret.scratch[2]
           mid == ret.scratch[1]
       IN  /\ Deref(tree, slot) = mid.left[Deref(mid, slot)]
           /\ tree.right[Deref(tree, slot)] = Deref(mid, slot)
           /\ mid.right[Deref(tree, slot)] # NULL
           /\ _rotate_left(tree, slot) = mid

\* ----- rbtree_insert as a whole --------------------------------------------
\* Values the three fields of a node's storage may hold before the call:
\* either color or a value that is no color, and in each pointer NULL, the
\* address of the tree's root or the address of another node's storage.
AnyFields(node) ==
    [color : {RB_BLACK, RB_RED, RB_RED + 1},
     left : {NULL, tree.root, IF node < MaxNodes THEN node + 1 ELSE 1},
     right : {NULL, tree.root, IF node < MaxNodes THEN node + 1 ELSE 1}]

\* C38: the tree a call of rbtree_insert(tree, node) leaves is the same
\* whatever node->color, node->left and node->right held before the call:
\* each completed insertion gives the tree that the call gives from the same
\* tree and key with any other prior values in the three fields.
C38_FieldsIgnored ==
    [][(ret'.op = "insert" /\ used' = used + 1) =>
         \A g \in AnyFields(used + 1) :
            LET r == rbtree_insert(WithFields(tree, used + 1, g), key',
                                   used + 1, ndebug)
            IN  /\ r.t = tree'
                /\ r.f.pc = "done"]_vars

\* An insertion into a tree of three or more nodes has returned; the new
\* node is a red leaf below the root.
C38_Witness ==
    /\ ret.op = "insert"
    /\ ins.pc = "idle"
    /\ ret.node = used
    /\ used >= 4
    /\ ret.node # tree.root
    /\ ret.node \in Reach(tree, tree.root)
    /\ tree.color[ret.node] = RB_RED
    /\ tree.left[ret.node] = NULL
    /\ tree.right[ret.node] = NULL

\* Sequence q with node n put in directly behind the last element that does
\* not compare greater than n under keys k (in front when there is none).
StableInsert(q, k, n) ==
    LET notGreater == {i \in 1..Len(q) : cmp(k[q[i]], k[n]) <= 0}
        last == IF notGreater = {} THEN 0
                ELSE CHOOSE i \in notGreater : \A j \in notGreater : j <= i
    IN  SubSeq(q, 1, last) \o <<n>> \o SubSeq(q, last + 1, Len(q))

\* C39: the in-order sequence of the tree after a call of rbtree_insert is
\* the in-order sequence before the call with the new node put in directly
\* behind the last node that does not compare greater than it: the nodes
\* that were in the tree keep their order, and nodes with equal keys come in
\* the order of their insertion.
C39_StableInsertion ==
    [][(ret'.op = "insert" /\ used' = used + 1 /\ ins'.pc = "idle") =>
         InOrder(tree', tree'.root)
            = StableInsert(InOrder(tree, tree.root), key', used + 1)]_vars

\* The node just inserted stands behind a node with the same key and in
\* front of a node with a greater key.
C39_Witness ==
    /\ ret.op = "insert"
    /\ ins.pc = "idle"
    /\ ret.node = used
    /\ LET q == InOrder(tree, tree.root)
       IN  \E i \in 2..(Len(q) - 1) :
             /\ q[i] = ret.node
             /\ key[q[i - 1]] = key[ret.node]
             /\ q[i - 1] < ret.node
             /\ key[q[i + 1]] > key[ret.node]

\* ===== the four-node fixtures ==============================================
\* The callers of tests/rbtree/case-1.c, case-2.c and case-3.c and their
\* like: up to MaxCaseNodes nodes with keys 0..MaxCaseKey, inserted one after
\* the other, each call followed step by step.
CaseCall ==
    /\ Quiet
    /\ used < MaxCaseNodes
    /\ \E kv \in 0..MaxCaseKey, g \in Uninit(used + 1) :
         LET node == used + 1
             m == InsertEntry(WithFields(tree, node, g), node, ndebug)
         IN  /\ key' = [key EXCEPT ![node] = kv]
             /\ used' = node
             /\ tree' = m.t
             /\ ins' = m.f
    /\ UNCHANGED <<contVars, listVars, ndebug, ret, srch, trav>>

NextCase ==
    \/ CaseCall
    \/ InsertDescend
    \/ InsertFixup
    \/ InsertInner
    \/ InsertOuter
    \/ InsertReturn

SpecCase == Init /\ [][NextCase]_vars

\* case-3.c: a.n = 1, b.n = 2, c.n = 0, d.n = 3, inserted in that order; the
\* call that inserts d is running or has just returned.
InCase3 ==
    /\ used = 4
    /\ key[1] = 1
    /\ key[2] = 2
    /\ key[3] = 0
    /\ key[4] = 3
    /\ ins.pc # "idle"

\* C40 as stated: in case-3.c the insertion of key 3 ends in the stretch
\* that rotates at the grandparent's slot.
C40_Case3Rotates ==
    [][(InCase3 /\ ins'.pc = "done") => ins.pc = "outer"]_vars

\* C40, amended: in case-3.c the insertion of key 3 finds its parent (key 2)
\* and its uncle (key 0) both red.  It never reaches a rotation; it ends in
\* the fixup loop, which has painted the two black and the root red and then
\* the root black again, with every link as the descent left it.
C40_Case3Recolors ==
    [][InCase3 =>
         /\ ins'.pc \notin {"inner", "outer", "abort", "undefined"}
         /\ ins'.pc = "done" =>
              /\ ins.pc = "fixup"
              /\ ins.backtrack = 1
              /\ ins'.node = tree.root
              /\ Links(tree') = Links(tree)
              /\ tree' = [root |-> 1,
                          color |-> [n \in Nodes |->
                                       IF n = 4 THEN RB_RED ELSE RB_BLACK],
                          left |-> [n \in Nodes |->
                                      IF n = 1 THEN 3 ELSE NULL],
                          right |-> [n \in Nodes |->
                                       IF n = 1 THEN 2
                                       ELSE IF n = 2 THEN 4 ELSE NULL]]]_vars

\* The insertion of key 3 in case-3.c has returned from the second iteration
\* of the fixup loop.
C40_Witness ==
    /\ InCase3
    /\ ins.pc = "done"
    /\ ins.backtrack = 1
    /\ ins.current = 0
    /\ tree.right[2] = 4
    /\ tree.color[2] = RB_BLACK
    /\ tree.color[3] = RB_BLACK

====
